---- MODULE Spec2Model ----
(***************************************************************************)
(* Model of the Realm proxy: the listener loop (startProxy), the session   *)
(* engine (handleSession), its handshake, relay and keepalive goroutines,  *)
(* GameState with its accessors and the packet interceptors that feed it,  *)
(* the Realm address resolver, and the tools of the control surface that   *)
(* read GameState or write to the upstream connection it holds.            *)
(***************************************************************************)
EXTENDS Integers, Sequences, FiniteSets, Bags, TLC

\* ---------------------------------------------------------------- bounds
\* clients the listener may accept in one run
MaxSessions == 2
\* packets that may arrive on one connection of one session
MaxPackets == 2
\* tool invocations of the control surface in one run
MaxToolCalls == 1
\* lines of a .chunks file given to upload_structure
MaxChunks == 2
\* chat messages appended in one run
MaxAppends == 102
\* largest slot index of an inventory update; item lists hold up to MaxSlot + 1 items
MaxSlot == 1
\* largest item handle resolved
MaxHandle == 11
\* goroutines of each kind that call into one GameState at the same time
MaxGoroutines == 2

\* packets of one block placement (placeBlock)
PlaceBlockPackets == 4

\* join attempts of one address resolution (for attempt := range 10)
maxJoinAttempts == 10

\* entries kept in the chat history
maxChatHistory == 100

Sessions == 1..MaxSessions
Dirs == {"c2s", "s2c"}

\* ---------------------------------------------------------------- constants of the program
StatusStarting == "starting"
StatusWaitingForClient == "waiting_for_client"
StatusConnectingToRealm == "connecting_to_realm"
StatusConnected == "connected"
StatusDisconnected == "disconnected"

\* the nil *minecraft.Conn; a non-nil handle is the number of the session that opened it
NilConn == 0

VARIABLES
    ctxDone,      \* the outer context has been cancelled
    listener,     \* "unbound" | "open" | "closed"
    binds,        \* number of successful cfg.Listen calls
    closer,       \* goroutine of startProxy lines 37-40: "none" | "waiting" | "done"
    pc,           \* position of the startProxy/handleSession thread
    sess,         \* number of clients accepted so far; the current session
    clientConn,   \* per session: "none" | "open" | "closed"
    serverConn,   \* per session: "none" | "open" | "closed"
    hs,           \* per session, per handshake goroutine: "idle" | "running" | "done"
    errs,         \* per session: the errs channel (TRUE = nil error), capacity 2
    hsRecv,       \* handleSession's loop counter i over the errs channel
    sessCancel,   \* per session: sessionCancel() has been called
    ka,           \* per session: keepalive goroutine "idle" | "select" | "write" | "exited"
    relay,        \* per session, per direction: "idle" | "read" | "intercept" | "write" | "exited"
    relayPk,      \* per session, per direction: the packet pk held by the worker (0 = none)
    readLog,      \* per session, per direction: packets returned by ReadPacket
    writeLog,     \* per session, per direction: packets accepted by WritePacket
    icount,       \* per session, per direction: interceptor calls completed by the worker
    done,         \* per session: number of signals in the done channel, capacity 2
    gs,           \* GameState
    tool,         \* the control-surface task running an action tool
    env,          \* the environment's budget for this run
    realm,        \* the call of resolveRealmAddress: its position, loop variable and result
    obs           \* the caller of GameState's accessors: its last call, the GameState
                  \* before that call, and the value last returned to it

vars == <<ctxDone, listener, binds, closer, pc, sess, clientConn, serverConn, hs, errs,
          hsRecv, sessCancel, ka, relay, relayPk, readLog, writeLog,
          icount, done, gs, tool, env, realm, obs>>

envVars == <<env, realm, obs>>
listenerVars == <<listener, binds, closer, envVars>>
connVars == <<clientConn, serverConn>>
hsVars == <<hs, errs, hsRecv>>
kaVars == <<ka>>
relayVars == <<relay, relayPk, readLog, writeLog, icount, done>>

\* ---------------------------------------------------------------- GameState
\* an empty Go map
EmptyMap == <<>>

\* m[k] = v
MapSet(m, k, v) == (k :> v) @@ m

\* delete(m, k)
MapDelete(m, k) == [x \in (DOMAIN m) \ {k} |-> m[x]]

\* the zero protocol.ItemInstance: network id 0, count 0
ZeroItem == [NetworkID |-> 0, Count |-> 0]

NewGameState ==
    [status |-> StatusStarting, serverConn |-> NilConn, clientConn |-> NilConn,
     entityID |-> 0, posX |-> 0, yaw |-> 0, dimension |-> 0, worldTime |-> 0,
     health |-> 0, attributes |-> EmptyMap, inventory |-> EmptyMap,
     chatHistory |-> <<>>, players |-> EmptyMap, itemRegistry |-> EmptyMap,
     blockRegistry |-> EmptyMap, verbosePacketLog |-> FALSE, entities |-> EmptyMap]

SetStatus(g, st) == [g EXCEPT !.status = st]

SetConnections(g, server, client) == [g EXCEPT !.serverConn = server, !.clientConn = client]

ClearConnections(g) == [g EXCEPT !.serverConn = NilConn, !.clientConn = NilConn]

SetIdentity(g, id) == [g EXCEPT !.entityID = id]

EntityID(g) == g.entityID

\* position and rotation; x stands for (x, y, z) and yaw for (pitch, yaw)
UpdatePosition(g, x, yaw) == [g EXCEPT !.posX = x, !.yaw = yaw]

Position(g) == [x |-> g.posX, yaw |-> g.yaw, dimension |-> g.dimension]

SetDimension(g, dim) == [g EXCEPT !.dimension = dim]

\* a whole-window replacement that appends to the window instead
SetInventory_append(g, windowID, items) ==
    [g EXCEPT !.inventory =
        MapSet(g.inventory, windowID,
               (IF windowID \in DOMAIN g.inventory THEN g.inventory[windowID] ELSE <<>>)
                   \o items)]

\* gs.inventory[windowID] = items
SetInventory(g, windowID, items) ==
    [g EXCEPT !.inventory = MapSet(g.inventory, windowID, items)]

\* a slot update that assigns without growing the window
UpdateInventorySlot_noGrow(g, windowID, slot, item) ==
    LET old == IF windowID \in DOMAIN g.inventory
               THEN g.inventory[windowID]
               ELSE [i \in 1..(slot + 1) |-> ZeroItem]
    IN [g EXCEPT !.inventory =
           MapSet(g.inventory, windowID,
                  IF slot < Len(old) THEN [old EXCEPT ![slot + 1] = item] ELSE old)]

\* slot is the Go index (from 0); the window is created with slot+1 zero items when
\* absent, grown with zero items while it is too short, then the slot is assigned
UpdateInventorySlot(g, windowID, slot, item) ==
    LET old == IF windowID \in DOMAIN g.inventory
               THEN g.inventory[windowID]
               ELSE [i \in 1..(slot + 1) |-> ZeroItem]
        grown == IF Len(old) <= slot
                 THEN old \o [i \in 1..(slot + 1 - Len(old)) |-> ZeroItem]
                 ELSE old
    IN [g EXCEPT !.inventory = MapSet(g.inventory, windowID, [grown EXCEPT ![slot + 1] = item])]

\* fmt.Sprintf("%d", n)
Digits == <<"0", "1", "2", "3", "4", "5", "6", "7", "8", "9">>

RECURSIVE SprintfNat(_)
SprintfNat(n) == IF n < 10 THEN Digits[n + 1] ELSE SprintfNat(n \div 10) \o Digits[(n % 10) + 1]

Sprintf_d(n) == IF n < 0 THEN "-" \o SprintfNat(0 - n) ELSE SprintfNat(n)

\* a resolver without the fallback name
resolveItemName_noFallback(g, networkID) ==
    IF networkID \in DOMAIN g.itemRegistry THEN g.itemRegistry[networkID] ELSE ""

resolveItemName(g, networkID) ==
    IF networkID \in DOMAIN g.itemRegistry
    THEN g.itemRegistry[networkID]
    ELSE "unknown:" \o Sprintf_d(networkID)

\* the slots of all windows with a non-zero count
InventoryCells(g) ==
    {c \in UNION {{<<w, i>> : i \in 1..Len(g.inventory[w])} : w \in DOMAIN g.inventory} :
        g.inventory[c[1]][c[2]].Count # 0}

InventorySlot(g, c) ==
    [Slot |-> c[2] - 1,
     Item |-> resolveItemName(g, g.inventory[c[1]][c[2]].NetworkID),
     Count |-> g.inventory[c[1]][c[2]].Count]

\* the list of entries as a bag: the windows are visited in the map's iteration order,
\* which Go leaves unspecified
Inventory(g) ==
    LET entries == {InventorySlot(g, c) : c \in InventoryCells(g)}
    IN [e \in entries |-> Cardinality({c \in InventoryCells(g) : InventorySlot(g, c) = e})]

\* a ring that drops the newest entry instead of the oldest
AppendChat_keepOldest(g, msg) ==
    LET h == Append(g.chatHistory, msg)
    IN [g EXCEPT !.chatHistory =
           IF Len(h) > maxChatHistory THEN SubSeq(h, 1, maxChatHistory) ELSE h]

\* append, then keep the last maxChatHistory entries
AppendChat(g, msg) ==
    LET h == Append(g.chatHistory, msg)
    IN [g EXCEPT !.chatHistory =
           IF Len(h) > maxChatHistory THEN SubSeq(h, Len(h) - maxChatHistory + 1, Len(h)) ELSE h]

\* a query that returns the first n entries
ChatHistory_firstN(g, n) ==
    LET m == IF n <= 0 \/ n > Len(g.chatHistory) THEN Len(g.chatHistory) ELSE n
    IN [i \in 1..m |-> g.chatHistory[i]]

ChatHistory(g, n) ==
    LET m == IF n <= 0 \/ n > Len(g.chatHistory) THEN Len(g.chatHistory) ELSE n
        start == Len(g.chatHistory) - m
    IN [i \in 1..m |-> g.chatHistory[start + i]]

AddPlayer(g, xuid, username) ==
    [g EXCEPT !.players = MapSet(g.players, xuid, [Username |-> username, XUID |-> xuid])]

\* a removal that leaves the roster as it is
RemovePlayer_noop(g, xuid) == g

RemovePlayer(g, xuid) == [g EXCEPT !.players = MapDelete(g.players, xuid)]

\* the players in the map's iteration order, which Go leaves unspecified: as a set
\* (the keys are distinct and each entry carries its key)
Players(g) == {g.players[x] : x \in DOMAIN g.players}

SetWorldTime(g, t) == [g EXCEPT !.worldTime = t]

SetHealth(g, h) == [g EXCEPT !.health = h, !.attributes = MapSet(g.attributes, "health", h)]

SetAttribute(g, name, value) ==
    [g EXCEPT !.attributes = MapSet(g.attributes, name, value),
              !.health = IF name = "minecraft:health" THEN value ELSE g.health]

\* for _, item := range gd.Items { gs.itemRegistry[int32(item.RuntimeID)] = item.Name }
RECURSIVE RegisterItems(_, _)
RegisterItems(reg, items) ==
    IF items = <<>> THEN reg
    ELSE RegisterItems(MapSet(reg, Head(items).RuntimeID, Head(items).Name), Tail(items))

InitFromGameData(g, gd) ==
    [g EXCEPT !.worldTime = gd.Time, !.dimension = gd.Dimension,
              !.posX = gd.PlayerPosition, !.yaw = gd.Yaw, !.health = 20,
              !.itemRegistry = RegisterItems(g.itemRegistry, gd.Items)]

\* gs.entities[runtimeID] = EntityInfo{runtimeID, entityType, pos}
AddEntity(g, runtimeID, entityType, pos) ==
    [g EXCEPT !.entities =
        MapSet(@, runtimeID, [RuntimeID |-> runtimeID, Type |-> entityType, Position |-> pos])]

\* delete(gs.entities, runtimeID)
RemoveEntity(g, runtimeID) ==
    IF runtimeID \in DOMAIN g.entities
    THEN [g EXCEPT !.entities = MapDelete(@, runtimeID)]
    ELSE g

\* only an entity that is tracked is moved
UpdateEntityPosition(g, runtimeID, pos) ==
    IF runtimeID \in DOMAIN g.entities
    THEN [g EXCEPT !.entities[runtimeID].Position = pos]
    ELSE g

\* uint64(n) of an int64: a negative n wraps to the top of the unsigned range, which
\* stands here at the top of the integers at hand, far from every runtime id used
Uint64(n) == IF n < 0 THEN 2147483647 + (n + 1) ELSE n

\* the verbose-packet-logging flag
VerbosePacketLog(g) == g.verbosePacketLog

SetVerbosePacketLog(g, enabled) == [g EXCEPT !.verbosePacketLog = enabled]

\* the exported form of resolveItemName
ResolveItemName(g, id) == resolveItemName(g, id)

\* the synthetic names of handles the item registry does not know
UnknownNames == {"unknown:" \o Sprintf_d(h) : h \in -1..MaxHandle}

\* a block runtime id is learned, unless the name is one of the "unknown:N" names
LearnBlock(g, rid, name) ==
    IF name \in UnknownNames THEN g
    ELSE [g EXCEPT !.blockRegistry = MapSet(@, rid, name)]

\* the learned name, or "rid:N"
ResolveBlockName(g, rid) ==
    IF rid \in DOMAIN g.blockRegistry THEN g.blockRegistry[rid]
    ELSE "rid:" \o Sprintf_d(rid)

\* health as returned in the WorldInfo tuple
WorldInfo(g) == [worldTime |-> g.worldTime, health |-> g.health]

\* the game data the handshake of session s yields
SessionGameData(s) ==
    [EntityRuntimeID |-> s, Time |-> 0, Dimension |-> 0, PlayerPosition |-> 0, Yaw |-> 0,
     Items |-> <<>>]

\* ---------------------------------------------------------------- initial state
IdleTool == [pc |-> "idle", kind |-> "none", calls |-> 0, seenStatus |-> "none",
             seenConn |-> "none", conn |-> NilConn, left |-> 0, writes |-> 0,
             result |-> "none", file |-> <<>>, chunks |-> <<>>, sent |-> <<>>,
             named |-> -1, realm_connected |-> FALSE]

\* no address (the empty string) and no error (nil)
NoAddress == <<>>
NoError == "nil"

\* resolveRealmAddress has not been called
IdleRealm == [pc |-> "idle", attempt |-> 0, joins |-> 0, lastErr |-> NoError,
              firstParsed |-> NoAddress,
              result |-> [address |-> NoAddress, err |-> NoError]]

\* what the environment does in one run: clients that connect, packets that arrive on
\* a connection, calls the controller makes, and whether upload_structure and
\* toggle_packet_logging (the calls with a file or the configuration) are among them
Budgets ==
    {[sessions |-> MaxSessions, packets |-> 0, calls |-> 0, config |-> FALSE],
     [sessions |-> 2, packets |-> 1, calls |-> 0, config |-> FALSE],
     [sessions |-> 1, packets |-> MaxPackets, calls |-> 0, config |-> FALSE],
     [sessions |-> 1, packets |-> 1, calls |-> MaxToolCalls, config |-> FALSE],
     [sessions |-> 1, packets |-> 0, calls |-> 1, config |-> TRUE]}

InitState ==
    /\ ctxDone = FALSE
    /\ listener = "unbound"
    /\ binds = 0
    /\ closer = "none"
    /\ pc = "listen"
    /\ sess = 0
    /\ clientConn = [s \in Sessions |-> "none"]
    /\ serverConn = [s \in Sessions |-> "none"]
    /\ hs = [s \in Sessions |-> [g \in {"startGame", "doSpawn"} |-> "idle"]]
    /\ errs = [s \in Sessions |-> <<>>]
    /\ hsRecv = 0
    /\ sessCancel = [s \in Sessions |-> FALSE]
    /\ ka = [s \in Sessions |-> "idle"]
    /\ relay = [s \in Sessions |-> [d \in Dirs |-> "idle"]]
    /\ relayPk = [s \in Sessions |-> [d \in Dirs |-> 0]]
    /\ readLog = [s \in Sessions |-> [d \in Dirs |-> <<>>]]
    /\ writeLog = [s \in Sessions |-> [d \in Dirs |-> <<>>]]
    /\ icount = [s \in Sessions |-> [d \in Dirs |-> 0]]
    /\ done = [s \in Sessions |-> 0]
    /\ gs = NewGameState
    /\ tool = IdleTool
    /\ realm = IdleRealm

\* no packet is held by the relay
NoPacket ==
    [held |-> FALSE, WindowID |-> 0, sent |-> <<>>, Content |-> <<>>, cap |-> 0,
     shared |-> FALSE]

\* gs.mu unlocked: no writer holds it and no reader does
NoGoroutine == <<"none", 0>>
FreeMutex == [writer |-> NoGoroutine, readers |-> {}]

\* nothing has been called and nothing returned
IdleObs(scn) ==
    [scn |-> scn, op |-> [name |-> "none"], pre |-> NewGameState,
     ret |-> [from |-> "none", val |-> <<>>, alias |-> {}], appended |-> 0,
     session |-> 0, twin |-> SetVerbosePacketLog(NewGameState, TRUE), kept |-> NoPacket,
     mu |-> FreeMutex, g |-> <<>>]

Init == InitState /\ env \in Budgets /\ obs = IdleObs("proxy")

\* ---------------------------------------------------------------- environment
\* the process context is cancelled (signal handler)
Cancel ==
    /\ ~ctxDone
    /\ ctxDone' = TRUE
    /\ UNCHANGED <<listenerVars, pc, sess, connVars, hsVars, sessCancel, kaVars, relayVars, gs, tool>>

\* ---------------------------------------------------------------- resolveRealmAddress
\* an address is a sequence of characters; net.SplitHostPort accepts an unbracketed
\* address with exactly one colon ("missing port" without, "too many colons" with more)
Colons(a) == Cardinality({i \in DOMAIN a : a[i] = ":"})

SplitHostPort(a) == Colons(a) = 1

\* addresses the Realms API has been seen to answer with: none yet, a bare host,
\* host:port, and a malformed one
Addresses == {NoAddress, <<"h">>, <<"h", ":", "p">>, <<"h", ":", ":">>}

\* what comes back to realmJoin's HTTP GET: a transport error (status 0), or a status
\* with a body
JoinResponses ==
    {[status |-> 0, address |-> NoAddress],
     [status |-> 503, address |-> NoAddress],
     [status |-> 404, address |-> NoAddress]}
    \cup {[status |-> 200, address |-> a] : a \in Addresses}

\* realmJoin: the error of client.Do, "realms API error %d" for a status >= 400, else
\* the address of the body
realmJoin(resp) ==
    IF resp.status = 0 THEN [address |-> NoAddress, err |-> "transport error"]
    ELSE IF resp.status >= 400
         THEN [address |-> NoAddress,
               err |-> IF resp.status = 503 THEN "realms API error 503"
                       ELSE "realms API error 4xx"]
         ELSE [address |-> resp.address, err |-> NoError]

\* the resolver is called
resolveRealmAddress_call ==
    /\ realm.pc = "idle"
    /\ realm' = [realm EXCEPT !.pc = "lookup"]
    /\ UNCHANGED <<ctxDone, listener, binds, closer, env, obs, pc, sess, connVars, hsVars,
                   sessCancel, kaVars, relayVars, gs, tool>>

\* realm, err := client.Realm(ctx, inviteCode); an error is returned wrapped
resolveRealmAddress_Realm ==
    /\ realm.pc = "lookup"
    /\ \/ realm' = [realm EXCEPT !.pc = "join", !.attempt = 0]
       \/ realm' = [realm EXCEPT !.pc = "done",
                                 !.result = [address |-> NoAddress, err |-> "realm lookup error"]]
    /\ UNCHANGED <<ctxDone, listener, binds, closer, env, obs, pc, sess, connVars, hsVars,
                   sessCancel, kaVars, relayVars, gs, tool>>

\* address, err := realmJoin(...): on an error, or on an address that does not split
\* into host and port, the loop goes to its wait; a split address is returned
resolveRealmAddress_realmJoin ==
    /\ realm.pc = "join"
    /\ \E resp \in JoinResponses :
          LET r == realmJoin(resp)
              called == [realm EXCEPT !.joins = @ + 1, !.lastErr = r.err]
          IN  IF r.err # NoError
              THEN realm' = [called EXCEPT !.pc = "wait"]
              ELSE IF SplitHostPort(r.address)
                   THEN realm' = [called EXCEPT !.pc = "done",
                                                !.firstParsed = r.address,
                                                !.result = [address |-> r.address,
                                                            err |-> NoError]]
                   ELSE realm' = [called EXCEPT !.pc = "wait"]
    /\ UNCHANGED <<ctxDone, listener, binds, closer, env, obs, pc, sess, connVars, hsVars,
                   sessCancel, kaVars, relayVars, gs, tool>>

\* a wait that does not look at the context: time.Sleep(3 * time.Second)
resolveRealmAddress_wait_sleep ==
    /\ realm.pc = "wait"
    /\ realm' = IF realm.attempt + 1 < maxJoinAttempts
                THEN [realm EXCEPT !.pc = "join", !.attempt = @ + 1]
                ELSE [realm EXCEPT !.pc = "done", !.attempt = @ + 1,
                                   !.result = [address |-> NoAddress,
                                               err |-> "never resolved"]]
    /\ UNCHANGED <<ctxDone, listener, binds, closer, env, obs, pc, sess, connVars, hsVars,
                   sessCancel, kaVars, relayVars, gs, tool>>

\* a loop without a bound: for { ... }
resolveRealmAddress_wait_unbounded ==
    /\ realm.pc = "wait"
    /\ realm' = IF ctxDone
                THEN [realm EXCEPT !.pc = "done",
                                   !.result = [address |-> NoAddress, err |-> "context canceled"]]
                ELSE [realm EXCEPT !.pc = "join", !.attempt = @ + 1]
    /\ UNCHANGED <<ctxDone, listener, binds, closer, env, obs, pc, sess, connVars, hsVars,
                   sessCancel, kaVars, relayVars, gs, tool>>

\* select { case <-ctx.Done(): return "", ctx.Err(); case <-time.After(3 * time.Second): }
\* the goroutine is parked on both channels and the first of the two events wakes it:
\* a cancelled context returns its error; three seconds without one go to the next
\* attempt, or past the loop to the terminal error
resolveRealmAddress_wait ==
    /\ realm.pc = "wait"
    /\ realm' = IF ctxDone
                THEN [realm EXCEPT !.pc = "done",
                                   !.result = [address |-> NoAddress, err |-> "context canceled"]]
                ELSE IF realm.attempt + 1 < maxJoinAttempts
                     THEN [realm EXCEPT !.pc = "join", !.attempt = @ + 1]
                     ELSE [realm EXCEPT !.pc = "done", !.attempt = @ + 1,
                                        !.result = [address |-> NoAddress,
                                                    err |-> "never resolved"]]
    /\ UNCHANGED <<ctxDone, listener, binds, closer, env, obs, pc, sess, connVars, hsVars,
                   sessCancel, kaVars, relayVars, gs, tool>>

NextResolve ==
    \/ Cancel
    \/ resolveRealmAddress_call
    \/ resolveRealmAddress_Realm
    \/ resolveRealmAddress_realmJoin
    \/ resolveRealmAddress_wait

\* a step of the resolver's goroutine
ResolveStep ==
    \/ resolveRealmAddress_call
    \/ resolveRealmAddress_Realm
    \/ resolveRealmAddress_realmJoin
    \/ resolveRealmAddress_wait

\* ---------------------------------------------------------------- startProxy
\* cfg.Listen, defer listener.Close(), and the start of the closer goroutine
startProxy_Listen ==
    /\ pc = "listen"
    /\ \/ /\ listener' = "open"
          /\ binds' = binds + 1
          /\ closer' = "waiting"
          /\ pc' = "loopTop"
       \/ /\ pc' = "returned"
          /\ UNCHANGED <<listener, binds, closer>>
    /\ UNCHANGED <<envVars, ctxDone, sess, connVars, hsVars, sessCancel, kaVars, relayVars, gs, tool>>

\* go func() { <-ctx.Done(); listener.Close() }()
startProxy_closer ==
    /\ closer = "waiting"
    /\ ctxDone
    /\ closer' = "done"
    /\ listener' = "closed"
    /\ UNCHANGED <<envVars, ctxDone, binds, pc, sess, connVars, hsVars, sessCancel, kaVars, relayVars, gs, tool>>

\* if ctx.Err() != nil { return }   (the deferred listener.Close() runs on return)
startProxy_ctxCheck ==
    /\ pc = "loopTop"
    /\ IF ctxDone
       THEN /\ pc' = "returned"
            /\ listener' = "closed"
       ELSE /\ pc' = "setWaiting"
            /\ UNCHANGED listener
    /\ UNCHANGED <<envVars, ctxDone, binds, closer, sess, connVars, hsVars, sessCancel, kaVars, relayVars, gs, tool>>

\* state.SetStatus(StatusWaitingForClient)
startProxy_SetWaiting ==
    /\ pc = "setWaiting"
    /\ gs' = SetStatus(gs, StatusWaitingForClient)
    /\ pc' = "accept"
    /\ UNCHANGED <<ctxDone, listenerVars, sess, connVars, hsVars, sessCancel, kaVars, relayVars, tool>>

\* listener.Accept() returns a client connection
startProxy_Accept ==
    /\ pc = "accept"
    /\ listener = "open"
    /\ sess < env.sessions
    /\ sess' = sess + 1
    /\ clientConn' = [clientConn EXCEPT ![sess + 1] = "open"]
    /\ pc' = "setConnecting"
    /\ UNCHANGED <<ctxDone, listenerVars, serverConn, hsVars, sessCancel, kaVars, relayVars, gs, tool>>

\* listener.Accept() returns an error: the listener was closed, or a transient failure
startProxy_AcceptError ==
    /\ pc = "accept"
    /\ pc' = "acceptErr"
    /\ UNCHANGED <<ctxDone, listenerVars, sess, connVars, hsVars, sessCancel, kaVars, relayVars, gs, tool>>

\* startProxy returning on every accept error instead of continuing
startProxy_acceptErrCheck_return ==
    /\ pc = "acceptErr"
    /\ pc' = "returned"
    /\ listener' = "closed"
    /\ UNCHANGED <<envVars, ctxDone, binds, closer, sess, connVars, hsVars, sessCancel, kaVars, relayVars, gs, tool>>

\* if ctx.Err() != nil { return }; slog.Error; continue
startProxy_acceptErrCheck ==
    /\ pc = "acceptErr"
    /\ IF ctxDone
       THEN /\ pc' = "returned"
            /\ listener' = "closed"
       ELSE /\ pc' = "loopTop"
            /\ UNCHANGED listener
    /\ UNCHANGED <<envVars, ctxDone, binds, closer, sess, connVars, hsVars, sessCancel, kaVars, relayVars, gs, tool>>

\* a startProxy that leaves the handles of the ended session in GameState
startProxy_ClearConnections_skipped ==
    /\ pc = "clear"
    /\ pc' = "setDisconnected"
    /\ UNCHANGED <<ctxDone, listenerVars, sess, connVars, hsVars, sessCancel, kaVars, relayVars,
                   gs, tool>>

\* state.ClearConnections() after handleSession returned
startProxy_ClearConnections ==
    /\ pc = "clear"
    /\ gs' = ClearConnections(gs)
    /\ pc' = "setDisconnected"
    /\ UNCHANGED <<ctxDone, listenerVars, sess, connVars, hsVars, sessCancel, kaVars, relayVars, tool>>

\* startProxy without its SetStatus(StatusDisconnected)
startProxy_SetDisconnected_skipped ==
    /\ pc = "setDisconnected"
    /\ pc' = "loopTop"
    /\ UNCHANGED <<ctxDone, listenerVars, sess, connVars, hsVars, sessCancel, kaVars, relayVars, gs, tool>>

\* state.SetStatus(StatusDisconnected); loop
startProxy_SetDisconnected ==
    /\ pc = "setDisconnected"
    /\ gs' = SetStatus(gs, StatusDisconnected)
    /\ pc' = "loopTop"
    /\ UNCHANGED <<ctxDone, listenerVars, sess, connVars, hsVars, sessCancel, kaVars, relayVars, tool>>

\* ---------------------------------------------------------------- handleSession
mainRest == <<ctxDone, listenerVars, sess>>

\* state.SetStatus(StatusConnectingToRealm)
handleSession_SetConnecting ==
    /\ pc = "setConnecting"
    /\ gs' = SetStatus(gs, StatusConnectingToRealm)
    /\ pc' = "resolve"
    /\ UNCHANGED <<mainRest, connVars, hsVars, sessCancel, kaVars, relayVars, tool>>

\* handleSession returning a resolve error without closing the client
handleSession_resolve_leak ==
    /\ pc = "resolve"
    /\ pc' \in {"dial", "clear"}
    /\ UNCHANGED <<mainRest, connVars, hsVars, sessCancel, kaVars, relayVars, gs, tool>>

\* resolveRealmAddress returns an address, or an error: clientConn.Close(); return err
handleSession_resolve ==
    /\ pc = "resolve"
    /\ \/ /\ pc' = "dial"
          /\ UNCHANGED clientConn
       \/ /\ clientConn' = [clientConn EXCEPT ![sess] = "closed"]
          /\ pc' = "clear"
    /\ UNCHANGED <<mainRest, serverConn, hsVars, sessCancel, kaVars, relayVars, gs, tool>>

\* a dial whose error path returns without closing the client connection
handleSession_dial_noClose ==
    /\ pc = "dial"
    /\ \/ /\ serverConn' = [serverConn EXCEPT ![sess] = "open"]
          /\ pc' = "handshake"
       \/ /\ pc' = "clear"
          /\ UNCHANGED serverConn
    /\ UNCHANGED <<mainRest, clientConn, hsVars, sessCancel, kaVars, relayVars, gs, tool>>

\* dialer.DialContext returns serverConn, or an error: clientConn.Close(); return err
handleSession_dial ==
    /\ pc = "dial"
    /\ \/ /\ serverConn' = [serverConn EXCEPT ![sess] = "open"]
          /\ pc' = "handshake"
          /\ UNCHANGED clientConn
       \/ /\ clientConn' = [clientConn EXCEPT ![sess] = "closed"]
          /\ pc' = "clear"
          /\ UNCHANGED serverConn
    /\ UNCHANGED <<mainRest, hsVars, sessCancel, kaVars, relayVars, gs, tool>>

\* errs := make(chan error, 2); go StartGame; go DoSpawn
handleSession_startHandshake ==
    /\ pc = "handshake"
    /\ hs' = [hs EXCEPT ![sess] = [g \in {"startGame", "doSpawn"} |-> "running"]]
    /\ hsRecv' = 0
    /\ pc' = "waitHandshake"
    /\ UNCHANGED <<mainRest, connVars, errs, sessCancel, kaVars, relayVars, gs, tool>>

\* errs := make(chan error, 2): a send goes through while the buffer has room
errsSend(s) == Len(errs[s]) < 2

\* a handshake goroutine: errs <- clientConn.StartGame(gd)  /  errs <- serverConn.DoSpawn()
handshakeGoroutine(s, g) ==
    /\ hs[s][g] = "running"
    /\ errsSend(s)
    /\ \E ok \in BOOLEAN : errs' = [errs EXCEPT ![s] = Append(@, ok)]
    /\ hs' = [hs EXCEPT ![s][g] = "done"]
    /\ UNCHANGED <<mainRest, pc, connVars, hsRecv, sessCancel, kaVars, relayVars, gs, tool>>

\* for i := 0; i < 2; i++ { if err := <-errs; err != nil { close both; return err } }
handleSession_waitHandshake ==
    /\ pc = "waitHandshake"
    /\ errs[sess] # <<>>
    /\ errs' = [errs EXCEPT ![sess] = Tail(@)]
    /\ IF Head(errs[sess])
       THEN /\ hsRecv' = hsRecv + 1
            /\ pc' = IF hsRecv + 1 = 2 THEN "setConnections" ELSE "waitHandshake"
            /\ UNCHANGED connVars
       ELSE /\ serverConn' = [serverConn EXCEPT ![sess] = "closed"]
            /\ clientConn' = [clientConn EXCEPT ![sess] = "closed"]
            /\ pc' = "clear"
            /\ UNCHANGED hsRecv
    /\ UNCHANGED <<mainRest, hs, sessCancel, kaVars, relayVars, gs, tool>>

\* state.SetConnections(serverConn, clientConn)
handleSession_SetConnections ==
    /\ pc = "setConnections"
    /\ gs' = SetConnections(gs, sess, sess)
    /\ pc' = "setIdentity"
    /\ UNCHANGED <<mainRest, connVars, hsVars, sessCancel, kaVars, relayVars, tool>>

\* a handleSession that goes on to InitFromGameData without storing the identity
handleSession_SetIdentity_skipped ==
    /\ pc = "setIdentity"
    /\ pc' = "initFromGameData"
    /\ UNCHANGED <<mainRest, connVars, hsVars, sessCancel, kaVars, relayVars, gs, tool>>

\* state.SetIdentity(id.DisplayName, id.XUID, gd.EntityRuntimeID)
handleSession_SetIdentity ==
    /\ pc = "setIdentity"
    /\ gs' = SetIdentity(gs, SessionGameData(sess).EntityRuntimeID)
    /\ pc' = "initFromGameData"
    /\ UNCHANGED <<mainRest, connVars, hsVars, sessCancel, kaVars, relayVars, tool>>

\* state.InitFromGameData(gd)
handleSession_InitFromGameData ==
    /\ pc = "initFromGameData"
    /\ gs' = InitFromGameData(gs, SessionGameData(sess))
    /\ pc' = "setConnected"
    /\ UNCHANGED <<mainRest, connVars, hsVars, sessCancel, kaVars, relayVars, tool>>

\* state.SetStatus(StatusConnected)
handleSession_SetConnected ==
    /\ pc = "setConnected"
    /\ gs' = SetStatus(gs, StatusConnected)
    /\ pc' = "startWorkers"
    /\ UNCHANGED <<mainRest, connVars, hsVars, sessCancel, kaVars, relayVars, tool>>

\* sessionCtx; go playerAuthInputLoop; done := make(chan struct{}, 2); go relay x 2
handleSession_startWorkers ==
    /\ pc = "startWorkers"
    /\ ka' = [ka EXCEPT ![sess] = "select"]
    /\ relay' = [relay EXCEPT ![sess] = [d \in Dirs |-> "read"]]
    /\ pc' = "wait"
    /\ UNCHANGED <<mainRest, connVars, hsVars, sessCancel, relayPk, readLog,
                   writeLog, icount, done, gs, tool>>

\* handleSession waiting for the context alone
handleSession_wait_ctxOnly ==
    /\ pc = "wait"
    /\ ctxDone
    /\ pc' = "sessionCancel"
    /\ UNCHANGED <<mainRest, connVars, hsVars, sessCancel, kaVars, relayVars, gs, tool>>

\* handleSession waiting for a relay worker alone
handleSession_wait_doneOnly ==
    /\ pc = "wait"
    /\ done[sess] > 0
    /\ done' = [done EXCEPT ![sess] = @ - 1]
    /\ pc' = "sessionCancel"
    /\ UNCHANGED <<mainRest, connVars, hsVars, sessCancel, kaVars, relay, relayPk, readLog,
                   writeLog, icount, gs, tool>>

\* select { case <-done: case <-ctx.Done(): }
handleSession_wait ==
    /\ pc = "wait"
    /\ \/ /\ done[sess] > 0
          /\ done' = [done EXCEPT ![sess] = @ - 1]
       \/ /\ ctxDone
          /\ UNCHANGED done
    /\ pc' = "sessionCancel"
    /\ UNCHANGED <<mainRest, connVars, hsVars, sessCancel, kaVars, relay, relayPk, readLog,
                   writeLog, icount, gs, tool>>

\* sessionCancel()
handleSession_sessionCancel ==
    /\ pc = "sessionCancel"
    /\ sessCancel' = [sessCancel EXCEPT ![sess] = TRUE]
    /\ pc' = "closeServer"
    /\ UNCHANGED <<mainRest, connVars, hsVars, kaVars, relayVars, gs, tool>>

\* serverConn.Close()
handleSession_closeServer ==
    /\ pc = "closeServer"
    /\ serverConn' = [serverConn EXCEPT ![sess] = "closed"]
    /\ pc' = "closeClient"
    /\ UNCHANGED <<mainRest, clientConn, hsVars, sessCancel, kaVars, relayVars, gs, tool>>

\* clientConn.Close(); return nil
handleSession_closeClient ==
    /\ pc = "closeClient"
    /\ clientConn' = [clientConn EXCEPT ![sess] = "closed"]
    /\ pc' = "clear"
    /\ UNCHANGED <<mainRest, serverConn, hsVars, sessCancel, kaVars, relayVars, gs, tool>>

\* ---------------------------------------------------------------- playerAuthInputLoop
\* the worker's context: sessionCtx, a child of the outer context
sessionCtxDone(s) == sessCancel[s] \/ ctxDone

\* select { case <-ctx.Done(): return ... }
playerAuthInputLoop_exit(s) ==
    /\ ka[s] = "select"
    /\ sessionCtxDone(s)
    /\ ka' = [ka EXCEPT ![s] = "exited"]
    /\ UNCHANGED <<mainRest, pc, connVars, hsVars, sessCancel, relayVars, gs, tool>>

\* select { ... case <-ticker.C: tick++ ... }  (select picks any ready case)
playerAuthInputLoop_tick(s) ==
    /\ ka[s] = "select"
    /\ ka' = [ka EXCEPT ![s] = "write"]
    /\ UNCHANGED <<mainRest, pc, connVars, hsVars, sessCancel, relayVars, gs, tool>>

\* the packet of a tick: position and rotation are those of gd, the game data that
\* handleSession passed when it started the goroutine
KeepalivePacket(s) ==
    [type |-> "PlayerAuthInput", Position |-> SessionGameData(s).PlayerPosition,
     Yaw |-> SessionGameData(s).Yaw]

\* conn.WritePacket(&packet.PlayerAuthInput{...}); the error is discarded
playerAuthInputLoop_write(s) ==
    /\ ka[s] = "write"
    /\ ka' = [ka EXCEPT ![s] = "select"]
    /\ UNCHANGED <<mainRest, pc, connVars, hsVars, sessCancel, relayVars, gs, tool>>

\* ---------------------------------------------------------------- diagnostics
\* a logInventoryTransaction that learns from every UseItem action, not only ClickBlock
logInventoryTransaction_anyAction(g, p) ==
    IF ~VerbosePacketLog(g) THEN g
    ELSE IF p.TransactionData = "UseItem"
         THEN LET itemName == ResolveItemName(g, p.HeldItem.NetworkID)
              IN  IF itemName # "unknown:0"
                  THEN LearnBlock(g, p.BlockRuntimeID, itemName)
                  ELSE g
         ELSE g

\* logInventoryTransaction: nothing unless the verbose flag is set; the log lines are
\* not modelled; a UseItem transaction that clicks a block with a held item whose
\* name is not "unknown:0" teaches the block registry the clicked runtime id
logInventoryTransaction(g, p) ==
    IF ~VerbosePacketLog(g) THEN g
    ELSE IF p.TransactionData = "UseItem"
         THEN LET itemName == ResolveItemName(g, p.HeldItem.NetworkID)
              IN  IF p.ActionType = "ClickBlock" /\ itemName # "unknown:0"
                  THEN LearnBlock(g, p.BlockRuntimeID, itemName)
                  ELSE g
         ELSE g

\* ---------------------------------------------------------------- interceptor
\* byte(p.WindowID) of a uint32
Byte(n) == n % 256

interceptClientPacket(g, p) ==
    CASE p.type = "PlayerAuthInput" -> UpdatePosition(g, p.Position, p.Yaw)
      [] p.type = "Text" ->
            IF p.TextType = "chat"
            THEN AppendChat(g, [Source |-> p.SourceName, Message |-> p.Message,
                                Type |-> "outgoing"])
            ELSE g
      [] OTHER -> g

RECURSIVE AddPlayers(_, _)
AddPlayers(g, entries) ==
    IF entries = <<>> THEN g
    ELSE AddPlayers(AddPlayer(g, Head(entries).XUID, Head(entries).Username), Tail(entries))

RECURSIVE RemovePlayers(_, _)
RemovePlayers(g, entries) ==
    IF entries = <<>> THEN g
    ELSE RemovePlayers(RemovePlayer(g, Head(entries).XUID), Tail(entries))

RECURSIVE SetAttributes(_, _)
SetAttributes(g, attrs) ==
    IF attrs = <<>> THEN g
    ELSE SetAttributes(SetAttribute(g, Head(attrs).Name, Head(attrs).Value), Tail(attrs))

\* an interceptor that moves the player on every MovePlayer packet
onMovePlayer_anyEntity(g, p) == UpdatePosition(g, p.Position, p.Yaw)

\* case *packet.MovePlayer
onMovePlayer(g, p) ==
    IF p.EntityRuntimeID = EntityID(g) THEN UpdatePosition(g, p.Position, p.Yaw) ELSE g

interceptServerPacket(g, p) ==
    CASE p.type = "MovePlayer" -> onMovePlayer(g, p)
      [] p.type = "ChangeDimension" -> SetDimension(g, p.Dimension)
      [] p.type = "InventoryContent" -> SetInventory(g, Byte(p.WindowID), p.Content)
      [] p.type = "InventorySlot" -> UpdateInventorySlot(g, Byte(p.WindowID), p.Slot, p.NewItem)
      [] p.type = "Text" ->
            AppendChat(g, [Source |-> p.SourceName, Message |-> p.Message, Type |-> "incoming"])
      [] p.type = "PlayerList" ->
            IF p.ActionType = "add" THEN AddPlayers(g, p.Entries)
            ELSE IF p.ActionType = "remove" THEN RemovePlayers(g, p.Entries)
            ELSE g
      [] p.type = "SetTime" -> SetWorldTime(g, p.Time)
      [] p.type = "UpdateAttributes" ->
            IF p.EntityRuntimeID = EntityID(g) THEN SetAttributes(g, p.Attributes) ELSE g
      [] p.type = "SetHealth" -> SetHealth(g, p.Health)
      [] p.type = "AddActor" -> AddEntity(g, p.EntityRuntimeID, p.EntityType, p.Position)
      [] p.type = "AddPlayer" -> AddEntity(g, p.EntityRuntimeID, p.Username, p.Position)
      [] p.type = "RemoveActor" -> RemoveEntity(g, Uint64(p.EntityUniqueID))
      [] p.type = "MoveActorDelta" -> UpdateEntityPosition(g, p.EntityRuntimeID, p.Position)
      [] OTHER -> g

\* the pk-th packet a client sends in a session, and the pk-th the Realm sends
ClientPacket(pk) == [type |-> "PlayerAuthInput", Position |-> pk, Yaw |-> 0]
ServerPacket(pk) == [type |-> "SetTime", Time |-> pk]

\* ---------------------------------------------------------------- relay workers
srcConn(s, d) == IF d = "c2s" THEN clientConn[s] ELSE serverConn[s]
dstConn(s, d) == IF d = "c2s" THEN serverConn[s] ELSE clientConn[s]

\* a done channel with room for one signal only
doneSend_capacityOne(s) == done[s] < 1

\* done := make(chan struct{}, 2): a send goes through while the buffer has room
doneSend(s) == done[s] < 2

\* defer func() { done <- struct{}{} }() on return; the record of the worker's traffic
\* ends with the worker
relayReturn(s, d) ==
    /\ doneSend(s)
    /\ relay' = [relay EXCEPT ![s][d] = "exited"]
    /\ relayPk' = [relayPk EXCEPT ![s][d] = 0]
    /\ readLog' = [readLog EXCEPT ![s][d] = <<>>]
    /\ writeLog' = [writeLog EXCEPT ![s][d] = <<>>]
    /\ icount' = [icount EXCEPT ![s][d] = 0]
    /\ done' = [done EXCEPT ![s] = @ + 1]

\* a relay worker that forwards without calling the interceptor first
relay_ReadPacket_noIntercept(s, d) ==
    /\ relay[s][d] = "read"
    /\ srcConn(s, d) = "open"
    /\ Len(readLog[s][d]) < env.packets
    /\ LET pk == Len(readLog[s][d]) + 1 IN
          /\ readLog' = [readLog EXCEPT ![s][d] = Append(@, pk)]
          /\ relayPk' = [relayPk EXCEPT ![s][d] = pk]
    /\ relay' = [relay EXCEPT ![s][d] = "write"]
    /\ UNCHANGED <<mainRest, pc, connVars, hsVars, sessCancel, kaVars, writeLog, icount, done, gs, tool>>

\* pk, err := src.ReadPacket(): the next packet of the stream arrives
relay_ReadPacket(s, d) ==
    /\ relay[s][d] = "read"
    /\ srcConn(s, d) = "open"
    /\ Len(readLog[s][d]) < env.packets
    /\ LET pk == Len(readLog[s][d]) + 1 IN
          /\ readLog' = [readLog EXCEPT ![s][d] = Append(@, pk)]
          /\ relayPk' = [relayPk EXCEPT ![s][d] = pk]
    /\ relay' = [relay EXCEPT ![s][d] = "intercept"]
    /\ UNCHANGED <<mainRest, pc, connVars, hsVars, sessCancel, kaVars, writeLog, icount, done, gs, tool>>

\* pk, err := src.ReadPacket(): err != nil (connection closed, or the peer went away)
relay_ReadError(s, d) ==
    /\ relay[s][d] = "read"
    /\ relayReturn(s, d)
    /\ UNCHANGED <<mainRest, pc, connVars, hsVars, sessCancel, kaVars, gs, tool>>

\* interceptClientPacket(pk, state)  /  interceptServerPacket(pk, state)
relay_intercept(s, d) ==
    /\ relay[s][d] = "intercept"
    /\ gs' = IF d = "c2s" THEN interceptClientPacket(gs, ClientPacket(relayPk[s][d]))
                          ELSE interceptServerPacket(gs, ServerPacket(relayPk[s][d]))
    /\ icount' = [icount EXCEPT ![s][d] = @ + 1]
    /\ relay' = [relay EXCEPT ![s][d] = "write"]
    /\ UNCHANGED <<mainRest, pc, connVars, hsVars, sessCancel, kaVars, relayPk, readLog, writeLog, done, tool>>

\* a relay worker that writes each packet twice
relay_WritePacket_twice(s, d) ==
    /\ relay[s][d] = "write"
    /\ IF dstConn(s, d) = "open"
       THEN /\ writeLog' = [writeLog EXCEPT ![s][d] = Append(Append(@, relayPk[s][d]), relayPk[s][d])]
            /\ relay' = [relay EXCEPT ![s][d] = "read"]
            /\ relayPk' = [relayPk EXCEPT ![s][d] = 0]
            /\ UNCHANGED <<readLog, icount, done>>
       ELSE relayReturn(s, d)
    /\ UNCHANGED <<mainRest, pc, connVars, hsVars, sessCancel, kaVars, gs, tool>>

\* if err := dst.WritePacket(pk); err != nil { return }
relay_WritePacket(s, d) ==
    /\ relay[s][d] = "write"
    /\ IF dstConn(s, d) = "open"
       THEN /\ writeLog' = [writeLog EXCEPT ![s][d] = Append(@, relayPk[s][d])]
            /\ relay' = [relay EXCEPT ![s][d] = "read"]
            /\ relayPk' = [relayPk EXCEPT ![s][d] = 0]
            /\ UNCHANGED <<readLog, icount, done>>
       ELSE relayReturn(s, d)
    /\ UNCHANGED <<mainRest, pc, connVars, hsVars, sessCancel, kaVars, gs, tool>>

\* ---------------------------------------------------------------- action tools
ActionTools == {"chat", "command", "teleport", "upload_structure", "place_blocks"}

QueryTools == {"get_position", "get_inventory", "get_players", "get_chat_history",
               "get_world_info"}

\* chat, command, teleport and place_blocks. Packets a call writes when nothing fails;
\* 0 stands for arguments the handler rejects (a missing parameter, malformed JSON)
ToolPackets(kind) ==
    CASE kind = "place_blocks" -> {0, PlaceBlockPackets}
      [] OTHER -> {0, 1}

\* results that are errors (mcp.NewToolResultError); the others are text results
ErrorResults == {"not connected to realm", "invalid argument", "server connection not available",
                 "send error", "failed to read file", "no chunks found in file"}

\* ---------------------------------------------------------------- chunks files
\* a line is a sequence of characters; strings.TrimSpace drops the white space at
\* both ends
RECURSIVE TrimLeft(_)
TrimLeft(l) == IF l # <<>> /\ Head(l) = " " THEN TrimLeft(Tail(l)) ELSE l

RECURSIVE TrimRight(_)
TrimRight(l) == IF l # <<>> /\ l[Len(l)] = " " THEN TrimRight(SubSeq(l, 1, Len(l) - 1)) ELSE l

TrimSpace(l) == TrimRight(TrimLeft(l))

\* for scanner.Scan() { line := strings.TrimSpace(scanner.Text());
\*                      if line != "" { chunks = append(chunks, line) } }
RECURSIVE readChunksFile(_)
readChunksFile(lines) ==
    IF lines = <<>> THEN <<>>
    ELSE LET line == TrimSpace(Head(lines))
         IN  (IF line # <<>> THEN <<line>> ELSE <<>>) \o readChunksFile(Tail(lines))

\* fmt.Sprintf("!chunk %s", chunk)
ChunkMessage(chunk) == <<"!chunk", " ">> \o chunk

\* lines of a chunks file: blank, plain, and with white space around
FileLines == {<<" ">>, <<"a">>, <<" ", "b", " ">>}

RECURSIVE FilesOfLen(_)
FilesOfLen(n) ==
    IF n = 0 THEN {<<>>}
    ELSE {Append(f, l) : f \in FilesOfLen(n - 1), l \in FileLines}

\* the file argument: a file that cannot be opened, or one of up to MaxChunks lines
ChunkFiles ==
    {[readable |-> FALSE, lines |-> <<>>]}
    \cup {[readable |-> TRUE, lines |-> f] : f \in UNION {FilesOfLen(n) : n \in 0..MaxChunks}}

\* ---------------------------------------------------------------- handlers

\* a status gate that lets every call through
requireConnected_always(g) == TRUE

\* a status gate that rejects only the status Disconnected
requireConnected_notDisconnected(g) == g.status # StatusDisconnected

requireConnected(g) == g.status = StatusConnected

ServerConn(g) == g.serverConn

toolRest == <<mainRest, pc, connVars, hsVars, sessCancel, kaVars, relayVars, gs>>

\* the handler starts: requireConnected(state), then the arguments are parsed
tool_requireConnected(kind, n) ==
    /\ tool.pc = "idle"
    /\ tool.calls < env.calls
    /\ tool' = [tool EXCEPT !.kind = kind, !.seenStatus = gs.status,
                   !.pc = IF requireConnected(gs) /\ n > 0 THEN "conn" ELSE "done",
                   !.left = IF requireConnected(gs) THEN n ELSE 0,
                   !.result = IF ~requireConnected(gs) THEN "not connected to realm"
                              ELSE IF n = 0 THEN "invalid argument" ELSE "none"]
    /\ UNCHANGED toolRest

\* upload_structure starts: requireConnected(state), readChunksFile, len(chunks) == 0
tool_upload_structure(file) ==
    /\ tool.pc = "idle"
    /\ tool.calls < env.calls
    /\ env.config
    /\ LET chunks == readChunksFile(file.lines)
           seen == [tool EXCEPT !.kind = "upload_structure", !.seenStatus = gs.status,
                                !.file = file.lines]
       IN  tool' = IF ~requireConnected(gs)
                   THEN [seen EXCEPT !.pc = "done", !.result = "not connected to realm"]
                   ELSE IF ~file.readable
                   THEN [seen EXCEPT !.pc = "done", !.result = "failed to read file"]
                   ELSE IF Len(chunks) = 0
                   THEN [seen EXCEPT !.pc = "done", !.result = "no chunks found in file"]
                   ELSE [seen EXCEPT !.pc = "conn", !.chunks = chunks, !.left = Len(chunks)]
    /\ UNCHANGED toolRest

\* toggle_packet_logging: no status gate; RequireBool("enabled"), then
\* state.SetVerbosePacketLog(enabled)
tool_toggle_packet_logging(enabled) ==
    /\ tool.pc = "idle"
    /\ tool.calls < env.calls
    /\ env.config
    /\ tool' = [tool EXCEPT !.kind = "toggle_packet_logging", !.seenStatus = gs.status,
                   !.pc = "done",
                   !.result = IF enabled = "missing" THEN "invalid argument" ELSE "ok"]
    /\ gs' = IF enabled = "missing" THEN gs ELSE SetVerbosePacketLog(gs, enabled = "true")
    /\ UNCHANGED <<mainRest, pc, connVars, hsVars, sessCancel, kaVars, relayVars>>

\* get_position, get_inventory, get_players, get_chat_history, get_world_info:
\* requireConnected(state), then the accessor's value is returned
tool_query(kind) ==
    /\ tool.pc = "idle"
    /\ tool.calls < env.calls
    /\ tool' = [tool EXCEPT !.kind = kind, !.seenStatus = gs.status, !.pc = "done",
                   !.result = IF requireConnected(gs) THEN "data"
                              ELSE "not connected to realm"]
    /\ UNCHANGED toolRest

\* get_status: no gate. "status": state.Status() is the first of two reads of the
\* status, each under its own read lock
tool_get_status ==
    /\ tool.pc = "idle"
    /\ tool.calls < env.calls
    /\ tool' = [tool EXCEPT !.kind = "get_status", !.seenStatus = gs.status,
                            !.pc = "realm_connected"]
    /\ UNCHANGED toolRest

\* "realm_connected": state.Status() == StatusConnected, the second read; the
\* response is built from the two
tool_get_status_realm_connected ==
    /\ tool.pc = "realm_connected"
    /\ tool' = [tool EXCEPT !.realm_connected = (gs.status = StatusConnected), !.pc = "done",
                            !.result = "data"]
    /\ UNCHANGED toolRest

\* conn := state.ServerConn(); if conn == nil { "server connection not available" }
tool_ServerConn ==
    /\ tool.pc = "conn"
    /\ tool' = IF ServerConn(gs) = NilConn
               THEN [tool EXCEPT !.pc = "done", !.seenConn = "nil",
                                 !.result = "server connection not available"]
               ELSE [tool EXCEPT !.pc = "write", !.seenConn = "conn", !.conn = ServerConn(gs)]
    /\ UNCHANGED toolRest

\* the loop index i of upload_structure: the chunks written so far
ChunkIndex == tool.writes

\* what upload_structure's response names: len(chunks) in "uploaded %d chunks", i in
\* "interrupted after %d/%d chunks", i+1 in "send error at chunk %d"
Named(result) ==
    IF tool.kind # "upload_structure" THEN tool.named
    ELSE CASE result = "ok" -> Len(tool.chunks)
           [] result = "interrupted" -> ChunkIndex
           [] result = "send error" -> ChunkIndex + 1
           [] OTHER -> tool.named

\* the packet a write of the call sends: for upload_structure the chat message of
\* chunk i; the other tools' packets are counted only
Sent == IF tool.kind = "upload_structure"
        THEN Append(tool.sent, ChunkMessage(tool.chunks[ChunkIndex + 1]))
        ELSE tool.sent

\* an upload loop that sends each chunk twice
tool_WritePacket_twice ==
    /\ tool.pc = "write"
    /\ tool' = IF serverConn[tool.conn] = "open"
               THEN [tool EXCEPT !.writes = @ + 1, !.left = @ - 1,
                                 !.sent = IF tool.kind = "upload_structure"
                                          THEN Append(Sent, Sent[Len(Sent)]) ELSE @,
                                 !.pc = IF tool.left = 1 THEN "done" ELSE "write",
                                 !.result = IF tool.left = 1 THEN "ok" ELSE "none",
                                 !.named = IF tool.left = 1 THEN Named("ok") ELSE @]
               ELSE [tool EXCEPT !.pc = "done", !.result = "send error",
                                 !.named = Named("send error")]
    /\ UNCHANGED toolRest

\* a handler that also records the chat message it sends as outgoing chat
tool_WritePacket_recordChat ==
    /\ tool.pc = "write"
    /\ tool' = IF serverConn[tool.conn] = "open"
               THEN [tool EXCEPT !.writes = @ + 1, !.left = @ - 1,
                                 !.sent = Sent,
                                 !.pc = IF tool.left = 1 THEN "done" ELSE "write",
                                 !.result = IF tool.left = 1 THEN "ok" ELSE "none",
                                 !.named = IF tool.left = 1 THEN Named("ok") ELSE @]
               ELSE [tool EXCEPT !.pc = "done", !.result = "send error",
                                 !.named = Named("send error")]
    /\ gs' = IF serverConn[tool.conn] = "open" /\ tool.kind = "chat"
             THEN AppendChat(gs, [Source |-> "", Message |-> 0, Type |-> "outgoing"])
             ELSE gs
    /\ UNCHANGED <<mainRest, pc, connVars, hsVars, sessCancel, kaVars, relayVars>>

\* conn.WritePacket(...): the next packet of the call
tool_WritePacket ==
    /\ tool.pc = "write"
    /\ tool' = IF serverConn[tool.conn] = "open"
               THEN [tool EXCEPT !.writes = @ + 1, !.left = @ - 1,
                                 !.sent = Sent,
                                 !.pc = IF tool.left = 1 THEN "done" ELSE "write",
                                 !.result = IF tool.left = 1 THEN "ok" ELSE "none",
                                 !.named = IF tool.left = 1 THEN Named("ok") ELSE @]
               ELSE [tool EXCEPT !.pc = "done", !.result = "send error",
                                 !.named = Named("send error")]
    /\ UNCHANGED toolRest

\* case <-ctx.Done(): the request was cancelled between two sends
tool_interrupted ==
    /\ tool.pc = "write"
    /\ \/ tool.kind = "upload_structure"
       \/ tool.kind = "place_blocks" /\ tool.left % PlaceBlockPackets = 0
    /\ tool' = [tool EXCEPT !.pc = "done", !.result = "interrupted",
                            !.named = Named("interrupted")]
    /\ UNCHANGED toolRest

\* the handler returns its result to the controller
tool_return ==
    /\ tool.pc = "done"
    /\ tool' = [IdleTool EXCEPT !.calls = tool.calls + 1]
    /\ UNCHANGED toolRest

NextEngine ==
    \/ Cancel
    \/ startProxy_Listen
    \/ startProxy_closer
    \/ startProxy_ctxCheck
    \/ startProxy_SetWaiting
    \/ startProxy_Accept
    \/ startProxy_AcceptError
    \/ startProxy_acceptErrCheck
    \/ startProxy_ClearConnections
    \/ startProxy_SetDisconnected
    \/ handleSession_SetConnecting
    \/ handleSession_resolve
    \/ handleSession_dial
    \/ handleSession_startHandshake
    \/ \E s \in Sessions, g \in {"startGame", "doSpawn"} : handshakeGoroutine(s, g)
    \/ handleSession_waitHandshake
    \/ handleSession_SetConnections
    \/ handleSession_SetIdentity
    \/ handleSession_InitFromGameData
    \/ handleSession_SetConnected
    \/ handleSession_startWorkers
    \/ handleSession_wait
    \/ handleSession_sessionCancel
    \/ handleSession_closeServer
    \/ handleSession_closeClient
    \/ \E s \in Sessions : playerAuthInputLoop_exit(s)
    \/ \E s \in Sessions : playerAuthInputLoop_tick(s)
    \/ \E s \in Sessions : playerAuthInputLoop_write(s)
    \/ \E s \in Sessions, d \in Dirs : relay_ReadPacket(s, d)
    \/ \E s \in Sessions, d \in Dirs : relay_ReadError(s, d)
    \/ \E s \in Sessions, d \in Dirs : relay_intercept(s, d)
    \/ \E s \in Sessions, d \in Dirs : relay_WritePacket(s, d)

NextTools ==
    \/ \E kind \in ActionTools \ {"upload_structure"} :
          \E n \in ToolPackets(kind) : tool_requireConnected(kind, n)
    \/ \E file \in ChunkFiles : tool_upload_structure(file)
    \/ \E enabled \in {"missing", "true", "false"} : tool_toggle_packet_logging(enabled)
    \/ tool_ServerConn
    \/ tool_WritePacket
    \/ tool_interrupted
    \/ \E kind \in QueryTools : tool_query(kind)
    \/ tool_get_status
    \/ tool_get_status_realm_connected
    \/ tool_return

Next == NextEngine \/ NextTools

Spec == Init /\ [][Next]_vars

\* ---------------------------------------------------------------- scheduling
\* steps of the startProxy/handleSession thread that do not wait for the environment
\* (Accept waits for a client; a wait on done/ctx is enabled only once one is ready)
MainStep ==
    \/ startProxy_Listen
    \/ startProxy_ctxCheck
    \/ startProxy_SetWaiting
    \/ startProxy_acceptErrCheck
    \/ startProxy_ClearConnections
    \/ startProxy_SetDisconnected
    \/ handleSession_SetConnecting
    \/ handleSession_resolve
    \/ handleSession_dial
    \/ handleSession_startHandshake
    \/ handleSession_waitHandshake
    \/ handleSession_SetConnections
    \/ handleSession_SetIdentity
    \/ handleSession_InitFromGameData
    \/ handleSession_SetConnected
    \/ handleSession_startWorkers
    \/ handleSession_wait
    \/ handleSession_sessionCancel
    \/ handleSession_closeServer
    \/ handleSession_closeClient

\* every goroutine that can run is scheduled; Accept on a closed listener and
\* ReadPacket on a closed connection return their error; select takes a ready
\* ctx.Done() case sooner or later (it picks among ready cases at random)
Fairness ==
    /\ WF_vars(MainStep)
    /\ WF_vars(startProxy_AcceptError /\ listener = "closed")
    /\ WF_vars(startProxy_closer)
    /\ \A s \in Sessions, g \in {"startGame", "doSpawn"} : WF_vars(handshakeGoroutine(s, g))
    /\ \A s \in Sessions : WF_vars(playerAuthInputLoop_write(s))
    /\ \A s \in Sessions : SF_vars(playerAuthInputLoop_exit(s))
    /\ \A s \in Sessions, d \in Dirs : WF_vars(relay_ReadError(s, d) /\ srcConn(s, d) # "open")
    /\ \A s \in Sessions, d \in Dirs : WF_vars(relay_intercept(s, d))
    /\ \A s \in Sessions, d \in Dirs : WF_vars(relay_WritePacket(s, d))

\* the runs checked under fair scheduling: no controller calls; packets flow in the
\* runs with a single session
FairBudgets ==
    {[sessions |-> MaxSessions, packets |-> 0, calls |-> 0, config |-> FALSE],
     [sessions |-> 1, packets |-> MaxPackets, calls |-> 0, config |-> FALSE]}

InitEngine == InitState /\ env \in FairBudgets /\ obs = IdleObs("proxy")

FairSpec == InitEngine /\ [][NextEngine]_vars /\ Fairness

\* ================================================================ GameState's callers
\* One run exercises one group of accessors, as a caller holding a *GameState does:
\* the interceptors (on packets) and the accessors directly.
Scenarios == {"chat", "inventory", "roster", "move", "health", "sessions", "logging",
              "packets", "entities"}

engineVars == <<ctxDone, listener, binds, closer, pc, sess, clientConn, serverConn, hs, errs,
                hsRecv, sessCancel, ka, relay, relayPk, readLog, writeLog, icount, done,
                tool, env, realm>>

\* the caller holds no returned list, or has just received one: a run makes any number
\* of calls, then may take a list, make one more call and modify the list
ListQueries == {"ChatHistory", "Players", "Inventory"}
MayCall == obs.ret.from = "none" \/ (obs.op.name = obs.ret.from /\ obs.ret.from \in ListQueries)

\* a call that changes GameState: the caller remembers the call and the state before it
Mutate(op, g2) ==
    /\ MayCall
    /\ gs' = g2
    /\ obs' = [obs EXCEPT !.op = op, !.pre = gs]
    /\ UNCHANGED engineVars

\* a call that returns a value: the caller keeps it; alias names the GameState
\* storage whose backing array the returned slice shares
Return(op, val, alias) ==
    /\ MayCall
    /\ obs' = [obs EXCEPT !.op = op, !.pre = gs,
                          !.ret = [from |-> op.name, val |-> val, alias |-> alias]]
    /\ UNCHANGED <<gs, engineVars>>

\* ---------------------------------------------------------------- chat
\* the n-th message appended in a run carries the number n
ChatSource == "steve"

\* requested lengths: below, at and above the sizes the history can have
QueryNs == {-1, 0, 1, 2, maxChatHistory - 1, maxChatHistory, maxChatHistory + 1}

call_AppendChat ==
    /\ obs.scn = "chat"
    /\ MayCall
    /\ obs.appended < MaxAppends
    /\ LET msg == [Source |-> ChatSource, Message |-> obs.appended + 1, Type |-> "incoming"]
       IN /\ gs' = AppendChat(gs, msg)
          /\ obs' = [obs EXCEPT !.op = [name |-> "AppendChat"], !.pre = gs,
                                !.appended = @ + 1]
    /\ UNCHANGED engineVars

\* a Text packet from the Realm, of any text type
server_Text ==
    /\ obs.scn = "chat"
    /\ MayCall
    /\ obs.appended < MaxAppends
    /\ LET p == [type |-> "Text", TextType |-> "system", SourceName |-> ChatSource,
                 Message |-> obs.appended + 1]
       IN /\ gs' = interceptServerPacket(gs, p)
          /\ obs' = [obs EXCEPT !.op = [name |-> "server_Text", TextType |-> p.TextType],
                                !.pre = gs,
                                !.appended = @ + 1]
    /\ UNCHANGED engineVars

\* a Text packet from the client that is not of type chat
client_TextNotChat ==
    /\ obs.scn = "chat"
    /\ obs.op.name # "client_TextNotChat"
    /\ LET p == [type |-> "Text", TextType |-> "whisper", SourceName |-> ChatSource,
                 Message |-> 0]
       IN Mutate([name |-> "client_TextNotChat", TextType |-> p.TextType],
                 interceptClientPacket(gs, p))

\* a ChatHistory that returns a slice of the history instead of a copy
call_ChatHistory_noCopy(n) ==
    /\ obs.scn = "chat"
    /\ Return([name |-> "ChatHistory", n |-> n], ChatHistory(gs, n), {"chatHistory"})

\* result := make([]ChatMessage, n); copy(result, ...): a new backing array
call_ChatHistory(n) ==
    /\ obs.scn = "chat"
    /\ Return([name |-> "ChatHistory", n |-> n], ChatHistory(gs, n), {})

\* the caller overwrites the first element of the list returned to it; the write
\* lands in the list's backing array, and so in every slice that shares it
caller_modifyChat ==
    /\ obs.scn = "chat"
    /\ obs.ret.from = "ChatHistory"
    /\ Len(obs.ret.val) > 0
    /\ obs.ret.val[1].Type # "edited"
    /\ LET n == Len(obs.ret.val)
           start == Len(gs.chatHistory) - n
       IN /\ obs' = [obs EXCEPT !.op = [name |-> "modify"], !.pre = gs,
                                !.ret.val[1].Type = "edited"]
          /\ gs' = IF "chatHistory" \in obs.ret.alias /\ start >= 0
                   THEN [gs EXCEPT !.chatHistory[start + 1].Type = "edited"]
                   ELSE gs
    /\ UNCHANGED engineVars

\* ---------------------------------------------------------------- inventory
Windows == {0, 1}
Slots == 0..MaxSlot

\* an empty slot and a stack of two of item 1, which the registry knows once
\* InitFromGameData has filled it
ItemInstances == {ZeroItem, [NetworkID |-> 1, Count |-> 2]}

ItemLists == UNION {[1..n -> ItemInstances] : n \in 0..(MaxSlot + 1)}

\* the item table of the handshake; the same runtime id may be listed twice
GameDataItems ==
    <<[RuntimeID |-> 1, Name |-> "minecraft:dirt"], [RuntimeID |-> 2, Name |-> "minecraft:stone"],
      [RuntimeID |-> 1, Name |-> "minecraft:stone"]>>

InventoryGameData ==
    [EntityRuntimeID |-> 1, Time |-> 0, Dimension |-> 0, PlayerPosition |-> 0, Yaw |-> 0,
     Items |-> GameDataItems]

call_InitFromGameData ==
    /\ obs.scn = "inventory"
    /\ gs.itemRegistry = EmptyMap
    /\ Mutate([name |-> "InitFromGameData"], InitFromGameData(gs, InventoryGameData))

call_SetInventory(w, items) ==
    /\ obs.scn = "inventory"
    /\ Mutate([name |-> "SetInventory", w |-> w, items |-> items], SetInventory(gs, w, items))

call_UpdateInventorySlot(w, slot, item) ==
    /\ obs.scn = "inventory"
    /\ Mutate([name |-> "UpdateInventorySlot", w |-> w, slot |-> slot, item |-> item],
              UpdateInventorySlot(gs, w, slot, item))

\* each entry is a new InventorySlot struct appended to a new slice
call_Inventory ==
    /\ obs.scn = "inventory"
    /\ Return([name |-> "Inventory"], Inventory(gs), {})

Handles == -1..MaxHandle

call_resolveItemName(h) ==
    /\ obs.scn = "inventory"
    /\ Return([name |-> "resolveItemName", h |-> h], resolveItemName(gs, h), {})

\* the caller empties the list returned to it
caller_modifyList ==
    /\ obs.scn \in {"inventory", "roster"}
    /\ obs.ret.from \in {"Inventory", "Players"}
    /\ IF obs.ret.from = "Players" THEN obs.ret.val # {} ELSE obs.ret.val # <<>>
    /\ obs' = [obs EXCEPT !.op = [name |-> "modify"], !.pre = gs,
                          !.ret.val = IF obs.ret.from = "Players" THEN {} ELSE <<>>]
    /\ UNCHANGED <<gs, engineVars>>

\* ---------------------------------------------------------------- roster
XUIDs == {"x1", "x2"}
Usernames == {"alex", "steve"}

call_AddPlayer(x, name) ==
    /\ obs.scn = "roster"
    /\ Mutate([name |-> "AddPlayer", xuid |-> x], AddPlayer(gs, x, name))

\* a removal that directly follows the add of the same user is remembered with the
\* roster as it was before that add
call_RemovePlayer(x) ==
    /\ obs.scn = "roster"
    /\ MayCall
    /\ gs' = RemovePlayer(gs, x)
    /\ obs' = IF obs.op.name = "AddPlayer" /\ obs.op.xuid = x
              THEN [obs EXCEPT !.op = [name |-> "AddRemove", xuid |-> x]]
              ELSE [obs EXCEPT !.op = [name |-> "RemovePlayer", xuid |-> x], !.pre = gs]
    /\ UNCHANGED engineVars

\* each entry is copied into a new slice
call_Players ==
    /\ obs.scn = "roster"
    /\ Return([name |-> "Players"], Players(gs), {})

\* PlayerList packets of the Realm, each with one or two entries
RosterEntries ==
    {<<[XUID |-> "x1", Username |-> "alex"]>>,
     <<[XUID |-> "x1", Username |-> "alex"], [XUID |-> "x2", Username |-> "steve"]>>}

server_PlayerList(action, entries) ==
    /\ obs.scn = "roster"
    /\ Mutate([name |-> "server_PlayerList"],
              interceptServerPacket(gs, [type |-> "PlayerList", ActionType |-> action,
                                         Entries |-> entries]))

\* ---------------------------------------------------------------- position
RuntimeIDs == {0, 1, 2}
Coords == {0, 1}

call_SetIdentity(id) ==
    /\ obs.scn \in {"move", "health"}
    /\ id # 0
    /\ Mutate([name |-> "SetIdentity"], SetIdentity(gs, id))

server_MovePlayer(r, x, yaw) ==
    /\ obs.scn = "move"
    /\ LET p == [type |-> "MovePlayer", EntityRuntimeID |-> r, Position |-> x, Yaw |-> yaw]
       IN Mutate([name |-> "server_MovePlayer", p |-> p], interceptServerPacket(gs, p))

server_ChangeDimension(dim) ==
    /\ obs.scn = "move"
    /\ Mutate([name |-> "server_ChangeDimension"],
              interceptServerPacket(gs, [type |-> "ChangeDimension", Dimension |-> dim]))

client_PlayerAuthInput(x, yaw) ==
    /\ obs.scn = "move"
    /\ Mutate([name |-> "client_PlayerAuthInput"],
              interceptClientPacket(gs, [type |-> "PlayerAuthInput", Position |-> x,
                                         Yaw |-> yaw]))

call_Position ==
    /\ obs.scn = "move"
    /\ Return([name |-> "Position"], Position(gs), {})

\* ---------------------------------------------------------------- health
HealthValues == {5, 15}
AttributeNames == {"minecraft:health", "minecraft:movement"}

HealthGameData ==
    [EntityRuntimeID |-> 1, Time |-> 0, Dimension |-> 0, PlayerPosition |-> 0, Yaw |-> 0,
     Items |-> <<>>]

call_SetHealth(h) ==
    /\ obs.scn = "health"
    /\ Mutate([name |-> "SetHealth"], SetHealth(gs, h))

call_SetAttribute(name, v) ==
    /\ obs.scn = "health"
    /\ Mutate([name |-> "SetAttribute"], SetAttribute(gs, name, v))

health_InitFromGameData ==
    /\ obs.scn = "health"
    /\ Mutate([name |-> "InitFromGameData"], InitFromGameData(gs, HealthGameData))

server_SetHealth(h) ==
    /\ obs.scn = "health"
    /\ Mutate([name |-> "server_SetHealth"],
              interceptServerPacket(gs, [type |-> "SetHealth", Health |-> h]))

server_UpdateAttributes(r, name, v) ==
    /\ obs.scn = "health"
    /\ Mutate([name |-> "server_UpdateAttributes"],
              interceptServerPacket(gs, [type |-> "UpdateAttributes", EntityRuntimeID |-> r,
                                         Attributes |-> <<[Name |-> name, Value |-> v]>>]))

call_WorldInfo ==
    /\ obs.scn = "health"
    /\ Return([name |-> "WorldInfo"], WorldInfo(gs), {})

\* ---------------------------------------------------------------- sessions
\* the game data of the n-th handshake: each Realm session lists its own item
SessionItems(n) ==
    [EntityRuntimeID |-> n, Time |-> 0, Dimension |-> 0, PlayerPosition |-> 0, Yaw |-> 0,
     Items |-> <<[RuntimeID |-> n, Name |-> IF n = 1 THEN "minecraft:dirt"
                                           ELSE "minecraft:stone"]>>]

\* what handleSession stores once both handshake halves are through:
\* SetIdentity(..., gd.EntityRuntimeID) and InitFromGameData(gd)
session_handshake ==
    /\ obs.scn = "sessions"
    /\ obs.session < MaxSessions
    /\ MayCall
    /\ LET n == obs.session + 1
       IN /\ gs' = InitFromGameData(SetIdentity(gs, SessionItems(n).EntityRuntimeID),
                                    SessionItems(n))
          /\ obs' = [obs EXCEPT !.op = [name |-> "handshake"], !.pre = gs, !.session = n]
    /\ UNCHANGED engineVars

\* packets the Realm sends in a session: a chat line, a roster entry, the content of
\* a window, an attribute of the player's own entity
SessionPackets ==
    {[type |-> "Text", TextType |-> "chat", SourceName |-> "alex", Message |-> 1],
     [type |-> "PlayerList", ActionType |-> "add",
      Entries |-> <<[XUID |-> "x1", Username |-> "alex"]>>],
     [type |-> "InventoryContent", WindowID |-> 0,
      Content |-> <<[NetworkID |-> 1, Count |-> 2]>>],
     [type |-> "UpdateAttributes", EntityRuntimeID |-> 1,
      Attributes |-> <<[Name |-> "minecraft:movement", Value |-> 1]>>]}

\* a packet of the Realm goes through the interceptor during the first session
session_serverPacket(p) ==
    /\ obs.scn = "sessions"
    /\ obs.session = 1
    /\ p.type = "Text" => gs.chatHistory = <<>>
    /\ Mutate([name |-> "session_serverPacket"], interceptServerPacket(gs, p))

\* ---------------------------------------------------------------- diagnostics
\* Two runs see the same calls: gs with the verbose flag off, obs.twin with it on.
InventoryTransactions ==
    {[type |-> "InventoryTransaction", TransactionData |-> "UseItem", ActionType |-> a,
      BlockRuntimeID |-> 7, HeldItem |-> [NetworkID |-> id, Count |-> 1]] :
        a \in {"ClickBlock", "ClickAir"}, id \in {0, 1, 3}}
    \cup {[type |-> "InventoryTransaction", TransactionData |-> "Normal"]}

\* the same call in both runs: g2 is what it makes of gs, t2 what it makes of the twin
Both(op, g2, t2) ==
    /\ obs.scn = "logging"
    /\ MayCall
    /\ gs' = g2
    /\ obs' = [obs EXCEPT !.op = op, !.pre = gs, !.twin = t2]
    /\ UNCHANGED engineVars

logging_InitFromGameData ==
    /\ gs.itemRegistry = EmptyMap
    /\ Both([name |-> "InitFromGameData"], InitFromGameData(gs, SessionItems(1)),
            InitFromGameData(obs.twin, SessionItems(1)))

client_InventoryTransaction(p) ==
    Both([name |-> "logInventoryTransaction", p |-> p], logInventoryTransaction(gs, p),
         logInventoryTransaction(obs.twin, p))

logging_clientPacket(x) ==
    Both([name |-> "interceptClientPacket"],
         interceptClientPacket(gs, [type |-> "PlayerAuthInput", Position |-> x, Yaw |-> 0]),
         interceptClientPacket(obs.twin, [type |-> "PlayerAuthInput", Position |-> x,
                                          Yaw |-> 0]))

call_ResolveBlockName(rid) ==
    /\ obs.scn = "logging"
    /\ Return([name |-> "ResolveBlockName", rid |-> rid], ResolveBlockName(gs, rid), {})

\* ---------------------------------------------------------------- packets
\* The relay still holds a packet after the interceptor has seen it (it forwards it
\* afterwards). obs.kept is one such InventoryContent packet: sent is its item list
\* as received, Content the list as it reads now, cap the capacity of the list's
\* backing array, shared whether GameState's window still uses that array.
ContentLists == {<<>>, <<[NetworkID |-> 1, Count |-> 2]>>,
                 <<[NetworkID |-> 1, Count |-> 2], ZeroItem>>}

\* gs.inventory[windowID] = items stores the slice itself: the window and the packet
\* share one backing array until the window is replaced
KeepPacket(k, w, items, spare, keep) ==
    IF keep
    THEN [held |-> TRUE, WindowID |-> w, sent |-> items, Content |-> items,
          cap |-> Len(items) + spare, shared |-> TRUE]
    ELSE IF k.held /\ Byte(k.WindowID) = Byte(w) THEN [k EXCEPT !.shared = FALSE] ELSE k

\* what UpdateInventorySlot does to the kept packet: append moves the window to a
\* new array once the capacity is used up; otherwise the assignment lands in the
\* shared array, where the packet sees it if the slot is within its length
SlotWrite(k, w, slot, item) ==
    IF k.held /\ k.shared /\ Byte(k.WindowID) = Byte(w)
    THEN IF slot + 1 > k.cap THEN [k EXCEPT !.shared = FALSE]
         ELSE IF slot < Len(k.Content) THEN [k EXCEPT !.Content[slot + 1] = item]
         ELSE k
    ELSE k

packets_InventoryContent(w, items, spare, keep) ==
    /\ obs.scn = "packets"
    /\ MayCall
    /\ keep => ~obs.kept.held
    /\ gs' = interceptServerPacket(gs, [type |-> "InventoryContent", WindowID |-> w,
                                        Content |-> items])
    /\ obs' = [obs EXCEPT !.op = [name |-> "InventoryContent", w |-> w], !.pre = gs,
                          !.kept = KeepPacket(@, w, items, spare, keep)]
    /\ UNCHANGED engineVars

packets_InventorySlot(w, slot, item) ==
    /\ obs.scn = "packets"
    /\ MayCall
    /\ gs' = interceptServerPacket(gs, [type |-> "InventorySlot", WindowID |-> w,
                                        Slot |-> slot, NewItem |-> item])
    /\ obs' = [obs EXCEPT !.op = [name |-> "InventorySlot", w |-> w, slot |-> slot],
                          !.pre = gs, !.kept = SlotWrite(@, w, slot, item)]
    /\ UNCHANGED engineVars

\* ---------------------------------------------------------------- entities
\* what handleSession stores once the handshake is through, for a player whose
\* runtime id is 1: SetIdentity, InitFromGameData, SetStatus(StatusConnected)
entities_install ==
    /\ obs.scn = "entities"
    /\ gs.status # StatusConnected
    /\ Mutate([name |-> "install"],
              SetStatus(InitFromGameData(SetIdentity(gs, HealthGameData.EntityRuntimeID),
                                         HealthGameData),
                        StatusConnected))

\* packets of the Realm about entities, the player's own among them
EntityPackets ==
    {[type |-> "AddActor", EntityRuntimeID |-> r, EntityType |-> "minecraft:pig",
      Position |-> x] : r \in {1, 2}, x \in Coords}
    \cup {[type |-> "AddPlayer", EntityRuntimeID |-> r, Username |-> "alex",
            Position |-> x] : r \in {1, 2}, x \in Coords}
    \cup {[type |-> "RemoveActor", EntityUniqueID |-> u] : u \in {-1, 1, 2}}
    \cup {[type |-> "MoveActorDelta", EntityRuntimeID |-> r, Position |-> x] :
            r \in {1, 2}, x \in Coords}
    \cup {[type |-> "MovePlayer", EntityRuntimeID |-> r, Position |-> x, Yaw |-> 0] :
            r \in {1, 2}, x \in Coords}

entities_serverPacket(p) ==
    /\ obs.scn = "entities"
    /\ Mutate([name |-> "entities_serverPacket", p |-> p], interceptServerPacket(gs, p))

NextState ==
    \/ entities_install
    \/ \E p \in EntityPackets : entities_serverPacket(p)
    \/ \E w \in Windows, items \in ContentLists, spare \in {0, 1}, keep \in BOOLEAN :
          packets_InventoryContent(w, items, spare, keep)
    \/ \E w \in Windows, slot \in Slots, item \in ItemInstances :
          packets_InventorySlot(w, slot, item)
    \/ logging_InitFromGameData
    \/ \E p \in InventoryTransactions : client_InventoryTransaction(p)
    \/ \E x \in Coords : logging_clientPacket(x)
    \/ \E rid \in {7, 8} : call_ResolveBlockName(rid)
    \/ session_handshake
    \/ \E p \in SessionPackets : session_serverPacket(p)
    \/ call_AppendChat
    \/ server_Text
    \/ client_TextNotChat
    \/ \E n \in QueryNs : call_ChatHistory(n)
    \/ caller_modifyChat
    \/ call_InitFromGameData
    \/ \E w \in Windows, items \in ItemLists : call_SetInventory(w, items)
    \/ \E w \in Windows, slot \in Slots, item \in ItemInstances :
          call_UpdateInventorySlot(w, slot, item)
    \/ call_Inventory
    \/ \E h \in Handles : call_resolveItemName(h)
    \/ caller_modifyList
    \/ \E x \in XUIDs, name \in Usernames : call_AddPlayer(x, name)
    \/ \E x \in XUIDs : call_RemovePlayer(x)
    \/ call_Players
    \/ \E action \in {"add", "remove"}, entries \in RosterEntries :
          server_PlayerList(action, entries)
    \/ \E id \in RuntimeIDs : call_SetIdentity(id)
    \/ \E r \in RuntimeIDs, x \in Coords, yaw \in Coords : server_MovePlayer(r, x, yaw)
    \/ \E dim \in Coords : server_ChangeDimension(dim)
    \/ \E x \in Coords, yaw \in Coords : client_PlayerAuthInput(x, yaw)
    \/ call_Position
    \/ \E h \in HealthValues : call_SetHealth(h)
    \/ \E name \in AttributeNames, v \in HealthValues : call_SetAttribute(name, v)
    \/ health_InitFromGameData
    \/ \E h \in HealthValues : server_SetHealth(h)
    \/ \E r \in {1, 2}, name \in AttributeNames, v \in HealthValues :
          server_UpdateAttributes(r, name, v)
    \/ call_WorldInfo

\* no client, no packet on the relay, no tool call: only GameState's callers act
NoBudget == [sessions |-> 0, packets |-> 0, calls |-> 0, config |-> FALSE]

InitCallers == InitState /\ env = NoBudget /\ obs \in {IdleObs(scn) : scn \in Scenarios}

StateSpec == InitCallers /\ [][NextState]_vars

\* ================================================================ concurrent callers
\* MaxGoroutines goroutines of each kind call into one GameState at once. obs.mu is
\* gs.mu; obs.g gives each goroutine's position in its call (call, locked, half,
\* returned), the value it has read so far (tmp) and what the call returned (ret).
\* A method body is two steps made while the lock is held; the deferred unlock is
\* part of the second.
WriterKinds == {"UpdatePosition", "AppendChat", "UpdateInventorySlot"}
Goroutines == (WriterKinds \cup {"Position"}) \X (1..MaxGoroutines)

\* gs.mu.Lock() returns once no goroutine holds the lock
Lock_free(mu) == TRUE
Lock(mu) == mu.writer = NoGoroutine /\ mu.readers = {}

\* gs.mu.RLock() returns once no writer holds the lock
RLock(mu) == mu.writer = NoGoroutine

\* the arguments of goroutine i, as the concurrency test passes them
ConcChat(i) == [Source |-> "", Message |-> i, Type |-> ""]
ConcItem(i) == [NetworkID |-> i, Count |-> 1]

InitConc ==
    /\ InitState
    /\ env = NoBudget
    /\ obs = [IdleObs("concurrent") EXCEPT
                 !.g = [id \in Goroutines |-> [pc |-> "call", tmp |-> <<>>, ret |-> <<>>]]]

conc_Lock(id) ==
    /\ obs.g[id].pc = "call"
    /\ IF id[1] = "Position" THEN RLock(obs.mu) ELSE Lock(obs.mu)
    /\ obs' = [obs EXCEPT !.g[id].pc = "locked",
                          !.mu = IF id[1] = "Position"
                                 THEN [@ EXCEPT !.readers = @ \cup {id}]
                                 ELSE [@ EXCEPT !.writer = id]]
    /\ UNCHANGED <<gs, engineVars>>

\* the first half of the body: the first field is assigned or read, the slice to
\* store is built from the one read, or the window is looked up (a window found
\* missing is made anew in the second half)
conc_first(id) ==
    /\ obs.g[id].pc = "locked"
    /\ LET i == id[2]
       IN CASE id[1] = "UpdatePosition" ->
                 /\ gs' = [gs EXCEPT !.posX = UpdatePosition(gs, i, i).posX]
                 /\ obs' = [obs EXCEPT !.g[id].pc = "half"]
            [] id[1] = "Position" ->
                 /\ obs' = [obs EXCEPT !.g[id].pc = "half", !.g[id].tmp = <<Position(gs).x>>]
                 /\ gs' = gs
            [] id[1] = "AppendChat" ->
                 /\ obs' = [obs EXCEPT !.g[id].pc = "half",
                                       !.g[id].tmp = AppendChat(gs, ConcChat(i)).chatHistory]
                 /\ gs' = gs
            [] id[1] = "UpdateInventorySlot" ->
                 /\ obs' = [obs EXCEPT !.g[id].pc = "half",
                                       !.g[id].tmp = <<0 \in DOMAIN gs.inventory>>]
                 /\ gs' = gs
    /\ UNCHANGED engineVars

\* the second half of the body and the deferred unlock
conc_second(id) ==
    /\ obs.g[id].pc = "half"
    /\ LET i == id[2]
           unlocked == IF id[1] = "Position"
                       THEN [obs.mu EXCEPT !.readers = @ \ {id}]
                       ELSE IF obs.mu.writer = id THEN [obs.mu EXCEPT !.writer = NoGoroutine]
                       ELSE obs.mu
       IN CASE id[1] = "UpdatePosition" ->
                 /\ gs' = [gs EXCEPT !.yaw = UpdatePosition(gs, i, i).yaw]
                 /\ obs' = [obs EXCEPT !.g[id].pc = "returned", !.mu = unlocked]
            [] id[1] = "Position" ->
                 /\ obs' = [obs EXCEPT !.g[id].pc = "returned", !.mu = unlocked,
                                       !.g[id].ret = obs.g[id].tmp \o <<Position(gs).yaw>>]
                 /\ gs' = gs
            [] id[1] = "AppendChat" ->
                 /\ gs' = [gs EXCEPT !.chatHistory = obs.g[id].tmp]
                 /\ obs' = [obs EXCEPT !.g[id].pc = "returned", !.mu = unlocked]
            [] id[1] = "UpdateInventorySlot" ->
                 /\ gs' = UpdateInventorySlot(
                              IF obs.g[id].tmp[1] THEN gs
                              ELSE [gs EXCEPT !.inventory = MapDelete(@, 0)],
                              0, i - 1, ConcItem(i))
                 /\ obs' = [obs EXCEPT !.g[id].pc = "returned", !.mu = unlocked]
    /\ UNCHANGED engineVars

NextConc ==
    \E id \in Goroutines : conc_Lock(id) \/ conc_first(id) \/ conc_second(id)

ConcSpec == InitConc /\ [][NextConc]_vars

\* ================================================================ the resolver alone
\* One call of resolveRealmAddress under a context that may be cancelled at any time.
\* Every call it makes carries the context or an HTTP client's timeout and returns, so
\* the resolver's goroutine keeps taking steps.
InitResolve == InitState /\ env = NoBudget /\ obs = IdleObs("resolve")

ResolveSpec == InitResolve /\ [][NextResolve]_vars /\ WF_vars(ResolveStep)

\* ================================================================ properties
StatusValues == {StatusStarting, StatusWaitingForClient, StatusConnectingToRealm,
                 StatusConnected, StatusDisconnected}

\* the transitions listed in the data model
ListedSteps ==
    {<<StatusStarting, StatusWaitingForClient>>,
     <<StatusWaitingForClient, StatusConnectingToRealm>>,
     <<StatusConnectingToRealm, StatusConnected>>,
     <<StatusConnected, StatusDisconnected>>,
     <<StatusDisconnected, StatusWaitingForClient>>}

IsPrefix(a, b) == Len(a) <= Len(b) /\ \A i \in 1..Len(a) : a[i] = b[i]

\* C1 as stated: the status is always one of the five values and every change of
\* status is one of the five listed steps.
C1_ListedStepsOnly ==
    [][/\ gs'.status \in StatusValues
       /\ gs'.status # gs.status => <<gs.status, gs'.status>> \in ListedSteps]_vars

\* C1 amended: the status is always one of the five values and every change of status
\* is one of the five listed steps or ConnectingToRealm -> Disconnected (a session whose
\* resolve, dial or handshake failed).
C1_StatusSteps ==
    [][/\ gs'.status \in StatusValues
       /\ gs'.status # gs.status =>
            <<gs.status, gs'.status>> \in
                ListedSteps \cup {<<StatusConnectingToRealm, StatusDisconnected>>}]_vars

\* a session that failed before the upstream was dialled has ended in Disconnected
C1_Witness ==
    /\ gs.status = StatusDisconnected
    /\ sess = 1
    /\ serverConn[1] = "none"
    /\ clientConn[1] = "closed"

\* C2: the keepalive worker never performs a WritePacket on an upstream connection
\* that has been closed.
C2_KeepaliveNeverWritesClosed ==
    [][\A s \in Sessions :
          (ka[s] = "write" /\ ka'[s] = "select") => serverConn[s] # "closed"]_vars

\* C3: in each direction the packets written by the relay worker are a prefix of the
\* packets it has read, lagging by at most the packet being processed.
C3_RelayPrefix ==
    \A s \in Sessions, d \in Dirs :
        /\ IsPrefix(writeLog[s][d], readLog[s][d])
        /\ Len(readLog[s][d]) - Len(writeLog[s][d]) <= 1
        /\ Len(readLog[s][d]) - Len(writeLog[s][d]) = 1 =>
              relay[s][d] \in {"intercept", "write"} /\ relayPk[s][d] = Len(readLog[s][d])

\* a worker has forwarded two packets and holds a third step of work
C3_Witness ==
    \E s \in Sessions, d \in Dirs : writeLog[s][d] = <<1, 2>> /\ readLog[s][d] = <<1, 2>>

\* C4: a relay worker has completed the interceptor call for every packet it has
\* written; in a run with one session the position (client packets) and the world
\* time (server packets) in GameState are at least those of the last forwarded packet.
C4_InterceptBeforeWrite ==
    /\ \A s \in Sessions, d \in Dirs : Len(writeLog[s][d]) <= icount[s][d]
    /\ env.sessions = 1 =>
          /\ writeLog[1]["c2s"] # <<>> =>
                gs.posX >= writeLog[1]["c2s"][Len(writeLog[1]["c2s"])]
          /\ writeLog[1]["s2c"] # <<>> =>
                gs.worldTime >= writeLog[1]["s2c"][Len(writeLog[1]["s2c"])]

\* both directions have forwarded a packet whose update GameState shows
C4_Witness ==
    /\ env.sessions = 1
    /\ Len(writeLog[1]["c2s"]) = 2 /\ gs.posX = 2
    /\ Len(writeLog[1]["s2c"]) = 1 /\ gs.worldTime = 1

OpenClients == {s \in Sessions : clientConn[s] = "open"}
OpenServers == {s \in Sessions : serverConn[s] = "open"}
InListenerLoop == pc \in {"listen", "loopTop", "setWaiting", "accept", "acceptErr",
                          "clear", "setDisconnected", "returned"}

\* C5: at most one client connection and at most one upstream connection are open,
\* only those of the current session, and none while the thread is in the listener
\* loop (outside handleSession).
C5_OneSessionAtATime ==
    /\ Cardinality(OpenClients) <= 1
    /\ Cardinality(OpenServers) <= 1
    /\ OpenClients \subseteq {sess}
    /\ OpenServers \subseteq {sess}
    /\ InListenerLoop => OpenClients = {} /\ OpenServers = {}

\* a second client is being served after the first session ended
C5_Witness ==
    /\ sess = 2
    /\ clientConn[2] = "open" /\ serverConn[2] = "open"
    /\ clientConn[1] = "closed" /\ serverConn[1] = "closed"

\* C6: the listener is bound at most once, is open whenever a session has been
\* accepted and the context is live, and is closed only after the context is cancelled.
C6_ListenerHeld ==
    /\ binds <= 1
    /\ listener = "closed" => ctxDone
    /\ (sess >= 1 /\ ~ctxDone) => listener = "open" /\ binds = 1
    /\ (pc \notin {"listen", "returned"} /\ ~ctxDone) => listener = "open"

\* the second session was accepted on the listener bound at the start
C6_Witness ==
    /\ sess = 2
    /\ gs.status = StatusConnected
    /\ listener = "open"
    /\ binds = 1

\* C9: GameState never holds a handle to an upstream connection that has been closed.
C9_NoClosedHandle ==
    gs.serverConn # NilConn => serverConn[gs.serverConn] # "closed"

\* C10 as stated: an action tool invoked while status # Connected fails with
\* "server connection not available" and writes no packet.
C10_NotConnectedGivesUnavailable ==
    (tool.pc = "done" /\ tool.kind \in ActionTools /\ tool.seenStatus # StatusConnected) =>
        tool.result = "server connection not available" /\ tool.writes = 0

\* C10 amended: an action tool whose status check sees status # Connected fails with
\* "not connected to realm"; one whose status check passes, whose arguments are valid
\* and which then reads a nil upstream handle fails with "server connection not
\* available"; in both cases it has written no packet and holds no connection.
C10_GateErrors ==
    /\ tool.kind \in ActionTools /\ tool.seenStatus # StatusConnected =>
          /\ tool.pc = "done"
          /\ tool.result = "not connected to realm"
          /\ tool.writes = 0 /\ tool.conn = NilConn
    /\ tool.seenConn = "nil" =>
          /\ tool.pc = "done"
          /\ tool.seenStatus = StatusConnected
          /\ tool.result = "server connection not available"
          /\ tool.writes = 0 /\ tool.conn = NilConn
    /\ tool.result \in {"not connected to realm", "server connection not available"} =>
          tool.writes = 0 /\ tool.conn = NilConn
    /\ tool.writes > 0 => tool.seenStatus = StatusConnected /\ tool.seenConn = "conn"

\* a call passed the status check and then found the handle cleared
C10_Witness ==
    /\ tool.pc = "done"
    /\ tool.seenStatus = StatusConnected
    /\ tool.result = "server connection not available"
    /\ tool.kind = "upload_structure"

RelayFailed == sess >= 1 /\ pc = "wait" /\ ~ctxDone /\ \E d \in Dirs : relay[sess][d] = "exited"

TornDown ==
    /\ sess >= 1
    /\ clientConn[sess] = "closed" /\ serverConn[sess] = "closed"
    /\ gs.serverConn = NilConn /\ gs.clientConn = NilConn

\* C7: once a relay worker of the running session has ended on an error while the
\* context is live, the session is eventually torn down (both connections closed,
\* handles cleared, status Disconnected), and then, unless the context is cancelled,
\* the loop is back in Accept with status WaitingForClient and the listener open.
C7_RelayErrorRecovers ==
    /\ RelayFailed ~> (TornDown /\ gs.status = StatusDisconnected)
    /\ RelayFailed ~>
          \/ ctxDone
          \/ /\ TornDown
             /\ pc = "accept" /\ gs.status = StatusWaitingForClient /\ listener = "open"

\* the loop waits for the next client after a session that a relay error ended
C7_Witness ==
    /\ ~ctxDone /\ sess = 1 /\ pc = "accept"
    /\ relay[1]["c2s"] = "exited"
    /\ TornDown /\ gs.status = StatusWaitingForClient /\ listener = "open"

Quiesced ==
    /\ pc = "returned"
    /\ listener # "open"
    /\ \A s \in Sessions :
          /\ ka[s] \in {"idle", "exited"}
          /\ \A d \in Dirs : relay[s][d] \in {"idle", "exited"}
          /\ clientConn[s] # "open" /\ serverConn[s] # "open"

\* C8: after the context is cancelled the listener loop eventually has returned, every
\* keepalive and relay worker has terminated and every connection is closed, for good.
C8_CancelTerminates == ctxDone ~> []Quiesced

\* cancelled while relaying: the loop returned and the session's workers ended
C8_Witness ==
    /\ ctxDone /\ Quiesced /\ sess = 1
    /\ ka[1] = "exited" /\ relay[1]["c2s"] = "exited" /\ relay[1]["s2c"] = "exited"
    /\ done[1] = 2

\* ---------------------------------------------------------------- query tools
\* C11: a finished call of get_position, get_inventory, get_players, get_chat_history
\* or get_world_info has returned the not-connected error when the status it saw was
\* Starting, WaitingForClient, ConnectingToRealm or Disconnected, and data when it was
\* Connected; a finished call of get_status has returned data whatever the status.
C11_QueryGate ==
    tool.pc = "done" =>
        /\ tool.kind \in QueryTools =>
              /\ tool.seenStatus \in StatusValues
              /\ tool.seenStatus = StatusConnected => tool.result = "data"
              /\ tool.seenStatus # StatusConnected => tool.result = "not connected to realm"
        /\ tool.kind = "get_status" => tool.result = "data"

\* a query made while the session is still being set up has been refused
C11_Witness ==
    /\ tool.pc = "done"
    /\ tool.kind = "get_inventory"
    /\ tool.seenStatus = StatusConnectingToRealm
    /\ tool.result = "not connected to realm"

\* ---------------------------------------------------------------- chat history
Min(a, b) == IF a < b THEN a ELSE b

\* C12: after m appends the history holds the min(m, 100) most recently appended
\* entries in the order they were appended (the n-th append carries the number n),
\* and the history never holds more than 100 entries.
C12_ChatRing ==
    /\ Len(gs.chatHistory) <= maxChatHistory
    /\ obs.scn = "chat" =>
          LET m == obs.appended
              k == Min(m, maxChatHistory)
          IN /\ Len(gs.chatHistory) = k
             /\ \A i \in 1..k : gs.chatHistory[i].Message = m - k + i

\* more than 100 messages have been appended and the oldest have been dropped
C12_Witness ==
    /\ obs.scn = "chat"
    /\ obs.appended = maxChatHistory + 2
    /\ Len(gs.chatHistory) = maxChatHistory
    /\ gs.chatHistory[1].Message = 3

\* C13: ChatHistory(n) on a history of size entries returns its last n entries in order
\* when 0 < n <= size, all of them when n <= 0 or n > size, and the empty list when the
\* history is empty.
C13_ChatHistoryLastN ==
    obs.op.name = "ChatHistory" =>
        LET h == obs.pre.chatHistory
            size == Len(h)
            n == obs.op.n
            r == IF obs.ret.from = "ChatHistory" THEN obs.ret.val ELSE <<>>
        IN /\ obs.ret.from = "ChatHistory"
           /\ (0 < n /\ n <= size) => r = SubSeq(h, size - n + 1, size)
           /\ (n <= 0 \/ n > size) => r = h
           /\ size = 0 => r = <<>>

\* the last two entries of a full history have been returned
C13_Witness ==
    /\ obs.op.name = "ChatHistory"
    /\ obs.op.n = 2
    /\ Len(obs.pre.chatHistory) = maxChatHistory
    /\ Len(obs.ret.val) = 2
    /\ obs.ret.val[2] = obs.pre.chatHistory[maxChatHistory]

\* ---------------------------------------------------------------- position
\* C14: after a MovePlayer packet of the Realm with entity runtime id r, the stored
\* position and rotation are the packet's when r is the stored entity runtime id, and
\* position, rotation and dimension are as before the packet when it is not; the
\* dimension is as before in both cases.
C14_MoveOnlyOwnEntity ==
    obs.op.name = "server_MovePlayer" =>
        LET p == obs.op.p IN
        /\ p.EntityRuntimeID = obs.pre.entityID =>
              gs.posX = p.Position /\ gs.yaw = p.Yaw
        /\ p.EntityRuntimeID # obs.pre.entityID =>
              gs.posX = obs.pre.posX /\ gs.yaw = obs.pre.yaw
        /\ gs.dimension = obs.pre.dimension

\* a MovePlayer packet of another entity, with a position that differs from the
\* player's, has been intercepted
C14_Witness ==
    /\ obs.op.name = "server_MovePlayer"
    /\ obs.pre.entityID = 1
    /\ obs.op.p.EntityRuntimeID = 2
    /\ obs.op.p.Position # obs.pre.posX
    /\ obs.op.p.Yaw # obs.pre.yaw

\* ---------------------------------------------------------------- inventory
WindowLen(g, w) == IF w \in DOMAIN g.inventory THEN Len(g.inventory[w]) ELSE 0

\* C15: after UpdateInventorySlot(w, s, item), window w exists, has at least s+1 slots
\* and holds item in slot s; the other slots it had are unchanged, the slots it gained
\* are empty, and every other window is unchanged.
C15_SlotUpdate ==
    obs.op.name = "UpdateInventorySlot" =>
        LET w == obs.op.w
            s == obs.op.slot
            old == obs.pre.inventory
            new == gs.inventory
        IN /\ w \in DOMAIN new
           /\ WindowLen(gs, w) >= s + 1
           /\ WindowLen(gs, w) >= WindowLen(obs.pre, w)
           /\ new[w][s + 1] = obs.op.item
           /\ \A i \in 1..WindowLen(obs.pre, w) : i # s + 1 => new[w][i] = old[w][i]
           /\ \A i \in (WindowLen(obs.pre, w) + 1)..WindowLen(gs, w) :
                 i # s + 1 => new[w][i] = ZeroItem
           /\ DOMAIN new = DOMAIN old \cup {w}
           /\ \A v \in DOMAIN old : v # w => new[v] = old[v]

\* a slot beyond the end of an existing, empty window has been set
C15_Witness ==
    /\ obs.op.name = "UpdateInventorySlot"
    /\ obs.op.slot = 1
    /\ obs.op.item.Count # 0
    /\ obs.op.w \in DOMAIN obs.pre.inventory
    /\ WindowLen(obs.pre, obs.op.w) = 0
    /\ WindowLen(gs, obs.op.w) = 2

\* the decimal forms of the handles
DecimalForm(h) ==
    IF h < 0 THEN <<"-1", "-2">>[0 - h]
    ELSE <<"0", "1", "2", "3", "4", "5", "6", "7", "8", "9", "10", "11", "12", "13">>[h + 1]

ExpectedName(g, h) ==
    IF h \in DOMAIN g.itemRegistry THEN g.itemRegistry[h] ELSE "unknown:" \o DecimalForm(h)

\* one entry {slot index, name, count} for each slot of items with a non-zero count
ItemEntries(g, items) ==
    LET idx == {i \in 1..Len(items) : items[i].Count # 0}
        entry(i) == [Slot |-> i - 1, Item |-> ExpectedName(g, items[i].NetworkID),
                     Count |-> items[i].Count]
    IN [e \in {entry(i) : i \in idx} |-> Cardinality({i \in idx : entry(i) = e})]

\* C16 as stated: right after SetInventory(w, items), from any GameState, Inventory()
\* returns one entry for each slot of items with a non-zero count and no other entry.
C16_ExactlySetItems ==
    obs.op.name = "SetInventory" => Inventory(gs) = ItemEntries(gs, obs.op.items)

\* C16 amended: right after SetInventory(w, items), Inventory() returns one entry
\* {slot index, resolved name, count} for each slot of items with a non-zero count,
\* together with the entries of the windows other than w, and no other entry.
C16_SetItemsAndOtherWindows ==
    obs.op.name = "SetInventory" =>
        Inventory(gs) =
            ItemEntries(gs, obs.op.items)
                (+) Inventory([obs.pre EXCEPT !.inventory = MapDelete(@, obs.op.w)])

\* a window has been replaced by a list with an empty and a non-empty slot while the
\* other window holds an item and the registry is filled
C16_Witness ==
    /\ obs.op.name = "SetInventory"
    /\ obs.op.w = 0
    /\ Len(obs.op.items) = 2
    /\ obs.op.items[1].Count = 0 /\ obs.op.items[2].Count # 0
    /\ 0 \in DOMAIN obs.pre.inventory /\ WindowLen(obs.pre, 0) = 1
    /\ 1 \in DOMAIN gs.inventory /\ WindowLen(gs, 1) = 1 /\ gs.inventory[1][1].Count # 0
    /\ gs.itemRegistry # EmptyMap

\* C17: resolving a handle returns the registered name when the handle is in the item
\* registry and otherwise "unknown:" followed by the decimal form of the handle; no
\* entry of Inventory() has an empty item name.
C17_ResolveName ==
    /\ obs.op.name = "resolveItemName" =>
          /\ obs.ret.from = "resolveItemName"
          /\ obs.op.h \in DOMAIN obs.pre.itemRegistry =>
                obs.ret.val = obs.pre.itemRegistry[obs.op.h]
          /\ obs.op.h \notin DOMAIN obs.pre.itemRegistry =>
                obs.ret.val = "unknown:" \o DecimalForm(obs.op.h)
    /\ \A e \in DOMAIN Inventory(gs) : e.Item # ""

\* a two-digit handle that is not in the filled registry has been resolved while the
\* inventory holds a stack of a registered item
C17_Witness ==
    /\ obs.op.name = "resolveItemName"
    /\ obs.op.h = 11
    /\ obs.ret.val = "unknown:11"
    /\ gs.itemRegistry # EmptyMap
    /\ \E e \in DOMAIN Inventory(gs) : e.Item = "minecraft:stone"

\* ---------------------------------------------------------------- roster
\* C18 as stated: from any roster and for any user id x, AddPlayer(x, name) followed
\* by RemovePlayer(x) leaves Players() as it was before the add.
C18_AddRemoveAnyUser ==
    obs.op.name = "AddRemove" => Players(gs) = Players(obs.pre)

\* C18 amended: for a user id x that is not in the roster, AddPlayer(x, name) followed
\* by RemovePlayer(x) leaves Players() as it was before the add.
C18_AddRemoveNewUser ==
    (obs.op.name = "AddRemove" /\ obs.op.xuid \notin DOMAIN obs.pre.players) =>
        Players(gs) = Players(obs.pre)

\* a user has been added to a roster that held another user, and removed again
C18_Witness ==
    /\ obs.op.name = "AddRemove"
    /\ obs.op.xuid = "x2"
    /\ DOMAIN obs.pre.players = {"x1"}
    /\ Players(gs) = Players(obs.pre)
    /\ Cardinality(Players(gs)) = 1

C20_HealthAliased ==
    "minecraft:health" \in DOMAIN gs.attributes =>
        gs.attributes["minecraft:health"] = WorldInfo(gs).health

\* ---------------------------------------------------------------- the resolver
\* what a finished resolution may return: an address that splits into host and port
\* and no error, or no address and one of the three errors
ResolverOutcome ==
    /\ realm.joins <= maxJoinAttempts
    /\ realm.firstParsed # NoAddress =>
          /\ realm.pc = "done"
          /\ realm.result = [address |-> realm.firstParsed, err |-> NoError]
    /\ realm.pc = "done" =>
          \/ /\ realm.result.err = NoError
             /\ SplitHostPort(realm.result.address)
             /\ realm.result.address = realm.firstParsed
          \/ /\ realm.result.address = NoAddress
             /\ realm.result.err \in {"context canceled", "realm lookup error", "never resolved"}
             /\ realm.firstParsed = NoAddress
    /\ realm.result.err = "never resolved" => realm.joins = maxJoinAttempts
    /\ realm.result.err = "realm lookup error" => realm.joins = 0
    /\ (realm.pc = "done" /\ realm.joins = maxJoinAttempts /\ realm.firstParsed = NoAddress) =>
          realm.result.err \in {"never resolved", "context canceled"}

\* C21: resolveRealmAddress makes at most 10 join calls; it returns the address of the
\* first join response that splits into host and port and calls join no more; when
\* none of 10 attempts gave such an address it returns the "never resolved" error
\* (or the context's error, when cancelled in its last wait); once called it always
\* finishes, with an address, the cancellation error or a terminal error.
C21_BoundedResolution ==
    /\ []ResolverOutcome
    /\ [][realm.pc = "done" => realm' = realm]_vars
    /\ (realm.pc = "lookup" ~> realm.pc = "done")

\* the tenth join call gave the first address that splits, and it was returned
C21_Witness ==
    /\ realm.pc = "done"
    /\ realm.joins = maxJoinAttempts
    /\ realm.lastErr = NoError
    /\ realm.result = [address |-> <<"h", ":", "p">>, err |-> NoError]

\* C22: a join call that failed with HTTP 503 or a transport error is followed by a
\* wait and another attempt, and after a join call that failed with another status
\* >= 400 no further join call is made and the resolution ends with an error.
C22_OtherStatusTerminal ==
    [][realm.joins > 0 /\ realm.lastErr = "realms API error 4xx" =>
          /\ realm'.joins = realm.joins
          /\ realm' # realm => realm'.pc = "done" /\ realm'.result.err # NoError]_vars

\* C23: when the context is cancelled while the resolver waits between two attempts,
\* its next step returns the context's error, and no join call follows.
C23_CancelInWait ==
    /\ [][realm.pc = "wait" /\ ctxDone =>
            /\ realm'.joins = realm.joins
            /\ realm' # realm =>
                  /\ realm'.pc = "done"
                  /\ realm'.result = [address |-> NoAddress, err |-> "context canceled"]]_vars
    /\ [][realm.result.err = "context canceled" => realm'.joins = realm.joins]_vars

\* the resolver has returned the context's error after two join calls
C23_Witness ==
    /\ realm.pc = "done"
    /\ realm.joins = 2
    /\ ctxDone
    /\ realm.result = [address |-> NoAddress, err |-> "context canceled"]

\* ---------------------------------------------------------------- failed session setup
\* handleSession is between SetStatus(ConnectingToRealm) and SetConnections
InSetup == pc \in {"resolve", "dial", "handshake", "waitHandshake"}

\* handleSession has returned the error of the resolve, of the dial or of a handshake half
SetupFailed == pc = "clear" /\ gs.status = StatusConnectingToRealm

\* C24: when the resolve, the dial or a half of the handshake fails, the connections the
\* session opened are closed (the client's, and the upstream one if it was dialled),
\* GameState has been given no handle and no identity by the session and holds no
\* handle, the status has not been Connected and becomes Disconnected, and the loop
\* comes back to Accept unless the context is cancelled.
C24_SetupFailureCleansUp ==
    /\ [](InSetup => /\ gs.status = StatusConnectingToRealm
                     /\ gs.serverConn = NilConn /\ gs.clientConn = NilConn)
    /\ [][InSetup => gs' = gs]_vars
    /\ [](SetupFailed => /\ clientConn[sess] = "closed"
                         /\ serverConn[sess] \in {"none", "closed"}
                         /\ gs.serverConn = NilConn /\ gs.clientConn = NilConn
                         /\ gs.entityID # SessionGameData(sess).EntityRuntimeID)
    /\ [][gs'.status = StatusConnected /\ gs.status # StatusConnected =>
            pc = "setConnected" /\ hsRecv = 2]_vars
    /\ SetupFailed ~> gs.status = StatusDisconnected
    /\ SetupFailed ~> (ctxDone \/ (pc = "accept" /\ gs.status = StatusWaitingForClient))

\* the second client has been accepted after the first session failed in its handshake
C24_Witness ==
    /\ sess = 2 /\ pc = "resolve"
    /\ clientConn[1] = "closed" /\ serverConn[1] = "closed"
    /\ ka[1] = "idle"
    /\ gs.entityID = 0

\* ---------------------------------------------------------------- session boundaries
\* C25: in every state where a session has ended (status Disconnected, or
\* WaitingForClient after a session) the identity is empty: EntityID() returns zero.
C25_IdentityCleared ==
    (gs.status = StatusDisconnected \/ (gs.status = StatusWaitingForClient /\ sess >= 1)) =>
        EntityID(gs) = 0

\* C26: right after the handshake of the second session has run InitFromGameData, the
\* chat history, the roster, the inventory, the attributes and the item registry hold
\* nothing of the first session.
C26_ResetAtSession ==
    (obs.op.name = "handshake" /\ obs.session = 2) =>
        /\ gs.chatHistory = <<>>
        /\ gs.players = EmptyMap
        /\ gs.inventory = EmptyMap
        /\ gs.attributes = EmptyMap
        /\ DOMAIN gs.itemRegistry = {SessionItems(2).Items[1].RuntimeID}

\* ---------------------------------------------------------------- keepalive content
\* C27: a keepalive packet carries the position and rotation GameState holds when it
\* is written.
C27_KeepaliveTracksGameState ==
    [][\A s \in Sessions :
          (ka[s] = "write" /\ ka'[s] = "select") =>
              /\ KeepalivePacket(s).Position = Position(gs).x
              /\ KeepalivePacket(s).Yaw = Position(gs).yaw]_vars

\* ---------------------------------------------------------------- upload_structure
\* c is what is left of the line l once the white space at both ends is dropped
IsTrimOf(c, l) ==
    /\ c # <<>> => c[1] # " " /\ c[Len(c)] # " "
    /\ \E i \in 0..Len(l), j \in 0..Len(l) :
          /\ i <= j
          /\ c = SubSeq(l, i + 1, j)
          /\ \A k \in (1..i) \cup ((j + 1)..Len(l)) : l[k] = " "

\* the lines of a file that are not blank, in file order
NonBlank(lines) == SelectSeq(lines, LAMBDA l : \E k \in DOMAIN l : l[k] # " ")

\* chunks holds one chunk per non-blank line, in file order, each the line without
\* the white space around it
ChunksOfFile(chunks, lines) ==
    /\ Len(chunks) = Len(NonBlank(lines))
    /\ \A i \in DOMAIN chunks : IsTrimOf(chunks[i], NonBlank(lines)[i])

\* the chat messages of the chunk list of the running upload
ChunkMessages == [i \in DOMAIN tool.chunks |-> <<"!chunk", " ">> \o tool.chunks[i]]

\* C28: upload_structure's chunk list is the non-empty trimmed lines of the file in
\* file order; the packets it has written are the messages "!chunk <chunk>" of a
\* prefix of that list; interrupted after k chunks its response names k and nothing
\* more is sent; a failed write ends it with the failing chunk's index (counted from
\* 1) in the response; a file without a non-empty line gives an error with nothing
\* written.
C28_UploadPrefix ==
    /\ [](tool.kind = "upload_structure" =>
            /\ tool.pc # "done" \/ tool.result \notin ErrorResults \/ tool.writes > 0 =>
                  ChunksOfFile(tool.chunks, tool.file)
            /\ (tool.seenStatus = StatusConnected /\ NonBlank(tool.file) = <<>>) =>
                  /\ tool.pc = "done" /\ tool.result \in ErrorResults
                  /\ tool.sent = <<>> /\ tool.writes = 0
            /\ IsPrefix(tool.sent, ChunkMessages)
            /\ Len(tool.sent) = tool.writes
            /\ tool.result = "ok" => tool.sent = ChunkMessages /\ tool.named = Len(tool.chunks)
            /\ tool.result = "interrupted" => tool.named = Len(tool.sent)
            /\ tool.result = "send error" =>
                  tool.named = Len(tool.sent) + 1 /\ tool.named \in DOMAIN tool.chunks
            /\ tool.result = "no chunks found in file" =>
                  tool.sent = <<>> /\ NonBlank(tool.file) = <<>>)
    /\ [][tool.kind = "upload_structure" /\ tool.pc = "done" =>
            tool'.sent \in {tool.sent, <<>>}]_vars

\* an upload of two chunks was cancelled after the first: one message sent, 1 named
C28_Witness ==
    /\ tool.kind = "upload_structure" /\ tool.pc = "done"
    /\ tool.result = "interrupted" /\ tool.named = 1
    /\ tool.file = <<<<" ", "b", " ">>, <<"a">>>>
    /\ tool.chunks = <<<<"b">>, <<"a">>>>
    /\ tool.sent = <<<<"!chunk", " ", "b">>>>

\* ---------------------------------------------------------------- errors of the actions
\* C29: a finished call of chat, command, teleport, toggle_packet_logging or
\* place_blocks that returns an error has written no packet.
C29_ErrorMeansNoWrite ==
    (/\ tool.pc = "done"
     /\ tool.kind \in {"chat", "command", "teleport", "toggle_packet_logging", "place_blocks"}
     /\ tool.result \in ErrorResults) => tool.writes = 0

\* ---------------------------------------------------------------- verbose flag
\* C30: two runs that get the same packets and differ only in the verbose flag hold
\* the same GameState apart from the flag.
C30_FlagOnlyDiagnostics ==
    obs.scn = "logging" =>
        [gs EXCEPT !.verbosePacketLog = FALSE] = [obs.twin EXCEPT !.verbosePacketLog = FALSE]

\* ---------------------------------------------------------------- kinds of text
\* C31: a text packet whose kind is not chat adds no entry to the chat history, whether
\* it comes from the client or from the Realm.
C31_OnlyChatKept ==
    [][(obs'.op.name \in {"server_Text", "client_TextNotChat"} /\ obs'.op.TextType # "chat") =>
          gs'.chatHistory = gs.chatHistory]_vars

\* ---------------------------------------------------------------- block learning
\* what the diagnostic path may teach the block registry reg of a GameState whose item
\* registry is items, on the transaction p
LearnedFrom(reg, items, p) ==
    IF /\ p.TransactionData = "UseItem"
       /\ p.ActionType = "ClickBlock"
       /\ p.HeldItem.NetworkID \in DOMAIN items
    THEN MapSet(reg, p.BlockRuntimeID, items[p.HeldItem.NetworkID])
    ELSE reg

\* C32: a UseItem transaction with action ClickBlock that goes through the diagnostic
\* path teaches the block registry its block runtime id, mapped to the held item's
\* name, only when the held item is in the item registry; with a held item that
\* resolves to an "unknown:N" name, and on every other transaction, the registry stays
\* as it is; ResolveBlockName of an id that was never learned returns "rid:N".
C32_LearnOnlyKnownItems ==
    /\ [][obs'.op.name = "logInventoryTransaction" =>
            /\ obs'.twin.blockRegistry =
                  LearnedFrom(obs.twin.blockRegistry, obs.twin.itemRegistry, obs'.op.p)
            /\ gs'.blockRegistry \in
                  {gs.blockRegistry, LearnedFrom(gs.blockRegistry, gs.itemRegistry, obs'.op.p)}]_vars
    /\ [](obs.ret.from = "ResolveBlockName" =>
            \A rid \in {7, 8} :
                (obs.op.name = "ResolveBlockName" /\ obs.op.rid = rid
                    /\ rid \notin DOMAIN gs.blockRegistry) =>
                        obs.ret.val = (IF rid = 7 THEN "rid:7" ELSE "rid:8"))

\* with the verbose flag on, a click with the registered item 1 in hand has taught
\* the registry block 7, and a later click with the unknown item 3 has left it so
C32_Witness ==
    /\ obs.op.name = "logInventoryTransaction"
    /\ obs.op.p.TransactionData = "UseItem"
    /\ obs.op.p.ActionType = "ClickBlock"
    /\ obs.op.p.HeldItem.NetworkID = 3
    /\ obs.twin.blockRegistry = (7 :> "minecraft:dirt")

\* ---------------------------------------------------------------- session installation
\* GameState holds the handles of the current session
HandlesStored == sess >= 1 /\ gs.serverConn = sess /\ gs.clientConn = sess

\* GameState holds the identity of the current session
IdentityStored == sess >= 1 /\ gs.entityID = SessionGameData(sess).EntityRuntimeID

\* C33: in a session the handles are stored first, the identity second, the game data
\* third, and only then the status becomes Connected; the keepalive worker and the
\* two relay workers of a session are started only when the status is Connected.
C33_InstallOrder ==
    /\ [][gs'.entityID # gs.entityID => HandlesStored]_vars
    /\ [][(pc = "initFromGameData" /\ pc' # pc) =>
            /\ HandlesStored /\ IdentityStored
            /\ gs.status = StatusConnectingToRealm
            /\ gs'.posX = SessionGameData(sess).PlayerPosition
            /\ gs'.worldTime = SessionGameData(sess).Time
            /\ gs'.health = 20]_vars
    /\ [][(gs'.status = StatusConnected /\ gs.status # StatusConnected) =>
            /\ pc = "setConnected"
            /\ HandlesStored /\ IdentityStored
            /\ gs.health = 20]_vars
    /\ [][pc' = "setConnected" /\ pc # pc' => pc = "initFromGameData"]_vars
    /\ [][\A s \in Sessions :
            \/ ka[s] = "idle" /\ ka'[s] # "idle"
            \/ \E d \in Dirs : relay[s][d] = "idle" /\ relay'[s][d] # "idle"
            => s = sess /\ gs.status = StatusConnected /\ HandlesStored]_vars

\* the workers of the second session have been started
C33_Witness ==
    /\ sess = 2 /\ gs.status = StatusConnected
    /\ HandlesStored /\ IdentityStored
    /\ ka[2] = "select" /\ relay[2]["c2s"] = "read" /\ relay[2]["s2c"] = "read"

\* C34 as stated: a packet the interceptor has seen keeps the contents it had when it
\* was passed in, whatever interceptor calls and GameState updates follow
C34_PacketUntouched == obs.kept.held => obs.kept.Content = obs.kept.sent

\* wg.Wait() has returned
AllReturned == \A id \in Goroutines : obs.g[id].pc = "returned"

\* C35: concurrent UpdatePosition, Position, AppendChat and UpdateInventorySlot calls
\* on one GameState never leave all goroutines stuck before they have returned, and
\* once all have returned every appended message is in the history exactly once, the
\* position is that of one UpdatePosition call in full, every slot written holds its
\* item, and every Position call returned the initial position or that of one call
C35_NoLostUpdate ==
    /\ ~AllReturned => ENABLED NextConc
    /\ \A id \in Goroutines :
          obs.g[id].pc = "returned" /\ id[1] = "Position" =>
              obs.g[id].ret \in {<<i, i>> : i \in 0..MaxGoroutines}
    /\ AllReturned =>
          /\ Len(gs.chatHistory) = MaxGoroutines
          /\ \A i \in 1..MaxGoroutines :
                \E k \in 1..Len(gs.chatHistory) : gs.chatHistory[k] = ConcChat(i)
          /\ \E i \in 1..MaxGoroutines : gs.posX = i /\ gs.yaw = i
          /\ 0 \in DOMAIN gs.inventory /\ Len(gs.inventory[0]) = MaxGoroutines
          /\ \A i \in 1..MaxGoroutines : gs.inventory[0][i] = ConcItem(i)

\* all calls have returned, the slot of goroutine 2 was written before that of
\* goroutine 1, and a reader saw the position of a call that was later overwritten
C35_Witness ==
    /\ AllReturned
    /\ gs.chatHistory[1] = ConcChat(2)
    /\ \E id \in Goroutines :
          id[1] = "Position" /\ obs.g[id].ret # <<gs.posX, gs.yaw>> /\ obs.g[id].ret # <<0, 0>>

\* C36 as stated: while the status is Connected the entity map has an entry under the
\* player's own runtime id, and a MovePlayer packet of the Realm for that id sets both
\* the Position field and the position of that entry
C36_OwnEntityTracked ==
    [][obs'.scn = "entities" =>
         /\ gs'.status = StatusConnected => EntityID(gs') \in DOMAIN gs'.entities
         /\ (/\ obs'.op.name = "entities_serverPacket"
             /\ obs'.op.p.type = "MovePlayer"
             /\ obs'.op.p.EntityRuntimeID = EntityID(gs)
             /\ gs.status = StatusConnected)
            => /\ gs'.posX = obs'.op.p.Position
               /\ EntityID(gs) \in DOMAIN gs'.entities
               /\ gs'.entities[EntityID(gs)].Position = obs'.op.p.Position]_vars

\* the second half of C36 on its own: with the player's own entity in the map, a
\* MovePlayer packet for it moves the entry as well
C36_MoveUpdatesEntry ==
    [][(/\ obs'.scn = "entities"
        /\ obs'.op.name = "entities_serverPacket"
        /\ obs'.op.p.type = "MovePlayer"
        /\ obs'.op.p.EntityRuntimeID = EntityID(gs)
        /\ EntityID(gs) \in DOMAIN gs.entities)
       => gs'.entities[EntityID(gs)].Position = obs'.op.p.Position]_vars

\* C37 as stated: in every get_status response realm_connected is true iff the status
\* field is "connected", also when the status changes while the handler runs
C37_StatusConsistent ==
    (tool.pc = "done" /\ tool.kind = "get_status") =>
        (tool.realm_connected <=> tool.seenStatus = StatusConnected)

\* the actions whose only effect is a write to the Realm
WriteOnlyTools == {"chat", "command", "teleport", "upload_structure"}

\* C38: no step of a chat, command, teleport or upload_structure call changes
\* GameState; in particular the chat history is what it was before the step
C38_ActionsLeaveState ==
    [][(tool' # tool /\ (tool.kind \in WriteOnlyTools \/ tool'.kind \in WriteOnlyTools))
       => gs' = gs /\ gs'.chatHistory = gs.chatHistory]_vars

\* a chat call has written its packet to the Realm, and the history has no entry
C38_Witness ==
    /\ tool.kind = "chat" /\ tool.pc = "done" /\ tool.result = "ok" /\ tool.writes = 1
    /\ gs.status = StatusConnected
    /\ gs.chatHistory = <<>>

\* C39: whenever GameState holds a Realm connection handle the status is
\* ConnectingToRealm or Connected; under Starting, WaitingForClient and Disconnected
\* the handle is nil
C39_HandleImpliesStatus ==
    ServerConn(gs) # NilConn => gs.status \in {StatusConnectingToRealm, StatusConnected}

\* the handle of the second session is stored while that session is still being set up
C39_Witness ==
    /\ sess = 2 /\ ServerConn(gs) = 2
    /\ gs.status = StatusConnectingToRealm

\* C40: a worker that has still to deliver its result always finds room in its
\* channel: a running handshake goroutine can send on errs and a running relay worker
\* can send on done, whether or not handleSession is still there to receive
C40_RoomToDeliver ==
    /\ \A s \in Sessions, g \in {"startGame", "doSpawn"} :
          hs[s][g] = "running" => errsSend(s)
    /\ \A s \in Sessions, d \in Dirs :
          relay[s][d] \in {"read", "intercept", "write"} => doneSend(s)

\* the first session ended on its first handshake error and the other goroutine
\* delivered afterwards; the second ended on cancellation and both relay workers
\* delivered with nobody left to receive
C40_Witness ==
    /\ sess = 2
    /\ hs[1]["startGame"] = "done" /\ hs[1]["doSpawn"] = "done" /\ Len(errs[1]) = 1
    /\ relay[2]["c2s"] = "exited" /\ relay[2]["s2c"] = "exited" /\ done[2] = 2

====
